---- MODULE Spec2Model ----
(***************************************************************************)
(* A model of the data-description language front-end.                     *)
(*                                                                         *)
(*  - the surface elaborator (crates/ddl/src/surface/elaborate.rs):        *)
(*    elaborate_items, elaborate_struct_ty_fields, elaborate_universe,     *)
(*    check_term, synth_term;                                              *)
(*  - the subtype relation and literal checking of the core semantics      *)
(*    (src/semantics/mod.rs): is_subtype, infer_literal, check_literal.    *)
(*                                                                         *)
(* Spans are modelled as paths: item i of the module has span <<i>>, its   *)
(* type annotation <<i, 0>>, its body <<i, 1>>, field j of a struct        *)
(* <<i, j>> (name <<i, j, 0>>, term <<i, j, 1>>), and the k-th child of a  *)
(* term with span s has span s \o <<k>>.                                   *)
(***************************************************************************)
EXTENDS Integers, Sequences, FiniteSets, TLC

\* Bounds of the model.
MaxItems == 3
MaxFields == 3

VARIABLES
    surface_items,  \* elaborate_items: the surface module's items (input)
    idx,            \* elaborate_items: number of items the loop has visited
    items,          \* ItemContext.items: label -> (span, type)
    core_items,     \* elaborate_items: the output vector
    diags,          \* the diagnostics reported so far, in emission order
    aborted,        \* a panic has unwound the elaborator
    surface_fields, \* elaborate_struct_ty_fields: the surface fields (input)
    fidx,           \* elaborate_struct_ty_fields: number of fields visited
    fields,         \* FieldContext.fields: label -> span
    core_fields,    \* elaborate_struct_ty_fields: the output vector
    raw_literal,    \* check_literal: the raw literal (input)
    ann,            \* check_module: the annotation, a global's name (input)
    checked,        \* check_literal: its result, once it has run
    ty1,            \* is_subtype: three types (input)
    ty2,
    ty3,
    subtypes,       \* is_subtype: its results on the pairs of the three types
    tc_env,         \* normalize: the environment, its definitions (input)
    norm_term,      \* normalize: the term (input)
    nf,             \* normalize: its result, once it has run
    nf_again,       \* normalize: its result on the term nf reads back as
    raw_term,       \* infer_term: the raw term (input)
    infer_result,   \* infer_term: its result, once it has run
    raw_module,     \* check_module: the raw definitions (input)
    def_idx,        \* check_module: number of definitions accepted
    module_defs,    \* check_module: the definitions collected
    module_error    \* check_module: the error it has returned, if any

elab_vars == <<surface_items, idx, items, core_items, diags, aborted,
               surface_fields, fidx, fields, core_fields>>

sem_vars == <<raw_literal, ann, checked, ty1, ty2, ty3, subtypes>>

norm_vars == <<tc_env, norm_term, nf, nf_again>>

infer_vars == <<raw_term, infer_result, raw_module, def_idx, module_defs, module_error>>

vars == <<elab_vars, sem_vars, norm_vars, infer_vars>>

\* Option<T>.
None == <<>>
Some(x) == <<x>>

\* check_module has not been entered.
NoModule ==
    /\ raw_module = <<>>
    /\ def_idx = 0
    /\ module_defs = <<>>
    /\ module_error = None

\* The core semantics has not been entered.
NoSemantics ==
    /\ raw_literal = None
    /\ ann = None
    /\ checked = None
    /\ ty1 = None
    /\ ty2 = None
    /\ ty3 = None
    /\ subtypes = None
    /\ tc_env = None
    /\ norm_term = None
    /\ nf = None
    /\ nf_again = None
    /\ raw_term = None
    /\ infer_result = None
    /\ NoModule

\* normalize has not been entered.
NoNormalization ==
    /\ tc_env = None
    /\ norm_term = None
    /\ nf = None
    /\ nf_again = None
    /\ raw_term = None
    /\ infer_result = None
    /\ NoModule

(***************************************************************************)
(* Surface syntax (the parser's output).                                   *)
(***************************************************************************)
Name(n) == [tag |-> "Name", name |-> n]
NumberLiteral(v) == [tag |-> "NumberLiteral", lit |-> v]
Paren(t) == [tag |-> "Paren", term |-> t]
Ann(t, ty) == [tag |-> "Ann", term |-> t, ty |-> ty]
If(h, t, f) == [tag |-> "If", head |-> h, if_true |-> t, if_false |-> f]
Match(h, bs) == [tag |-> "Match", head |-> h, branches |-> bs]
SurfaceError == [tag |-> "Error"]

\* Patterns; a branch of a match is <<pattern, term>>.
PatternNumberLiteral(v) == [tag |-> "NumberLiteral", lit |-> v]
PatternName(n) == [tag |-> "Name", name |-> n]

\* ty is <<>> (no annotation) or <<t>>.
Alias(l, ty, t) == [kind |-> "Alias", name |-> l, ty |-> ty, term |-> t]
Struct(l, fs) == [kind |-> "Struct", name |-> l, fields |-> fs]
TypeField(l, t) == [name |-> l, term |-> t]

(***************************************************************************)
(* Core syntax and values.                                                 *)
(***************************************************************************)
CoreItem(sp, l) == [tag |-> "Item", span |-> sp, name |-> l]
CoreUniverse(sp, u) == [tag |-> "Universe", span |-> sp, name |-> u]
CoreConstant(sp, k, v) == [tag |-> "Constant", span |-> sp, name |-> k, val |-> v]
CoreAnn(t, ty) == [tag |-> "Ann", term |-> t, ty |-> ty]
CoreBoolElim(sp, h, t, f) ==
    [tag |-> "BoolElim", span |-> sp, head |-> h, if_true |-> t, if_false |-> f]
CoreIntElim(sp, h, bs, d) ==
    [tag |-> "IntElim", span |-> sp, head |-> h, branches |-> bs, default |-> d]
CoreError(sp) == [tag |-> "Error", span |-> sp]

\* Span::initial().
SpanInitial == <<>>

ValueUniverse(u) == [tag |-> "Universe", name |-> u]
ValueItem(l) == [tag |-> "Neutral", name |-> l]
ValueError == [tag |-> "Error", name |-> ""]
\* A value stuck on an eliminator or a constant (never a type of the model's
\* inputs); kept distinct from every universe, item and error value.
ValueOther(t) == [tag |-> "Other", name |-> t.tag]

Diagnostic(kind, severity, sp, original, name, notes) ==
    [kind |-> kind, severity |-> severity, span |-> sp,
     original |-> original, name |-> name, notes |-> notes]

\* A panic (unimplemented!) unwinds through elaborate_module. It is modelled
\* as a mark in the sequence of reports of the call that panics, which every
\* caller passes on and which the step of the loop turns into the abort.
Unwind(msg) == Diagnostic("panic", "abort", SpanInitial, <<>>, msg, <<>>)
Panics(ds) == \E k \in DOMAIN ds : ds[k].kind = "panic"

\* The reports made before the panic.
BeforePanic(ds) ==
    SubSeq(ds, 1, (CHOOSE k \in DOMAIN ds :
                      /\ ds[k].kind = "panic"
                      /\ \A j \in 1..(k - 1) : ds[j].kind # "panic") - 1)

\* core::semantics::eval: a term to its value, with no item unfolding.
RECURSIVE eval(_)
eval(t) ==
    CASE t.tag = "Universe" -> ValueUniverse(t.name)
      [] t.tag = "Item" -> ValueItem(t.name)
      [] t.tag = "Ann" -> eval(t.term)
      [] t.tag = "Error" -> ValueError
      [] OTHER -> ValueOther(t)

\* core::semantics::equal: equality of values; the error value absorbs, so
\* that an error already reported is not reported again as a mismatch.
equal(v1, v2) == v1 = ValueError \/ v2 = ValueError \/ v1 = v2

\* Literal::parse_big_int and Literal::parse_float on a well-formed literal.
parse_big_int(v) == <<v>>
parse_float(v) == <<v>>

Insert(map, key, value) ==
    [k \in DOMAIN map \cup {key} |-> IF k = key THEN value ELSE map[k]]

EmptyMap == [k \in {} |-> <<>>]

(***************************************************************************)
(* Terms: elaborate_universe, check_term, synth_term.                      *)
(* its is the item table (TermContext.items); the diagnostics a call       *)
(* reports are returned in emission order.                                 *)
(***************************************************************************)
FormatNames ==
    {"U8", "U16Le", "U16Be", "U32Le", "U32Be", "U64Le", "U64Be", "S8",
     "S16Le", "S16Be", "S32Le", "S32Be", "S64Le", "S64Be", "F32Le", "F32Be",
     "F64Le", "F64Be"}
TypeNames == {"Bool", "Int", "F32", "F64"}
BoolTy == ValueItem("Bool")

\* The match on name.as_str() of a name that is not in the item table.
synth_builtin(sp, name) ==
    CASE name = "Kind" ->
            [term |-> CoreError(sp), ty |-> ValueError,
             diags |-> <<Diagnostic("kind_has_no_type", "error", sp, <<>>, "", <<>>)>>]
      [] name = "Type" ->
            [term |-> CoreUniverse(sp, "Type"), ty |-> ValueUniverse("Kind"),
             diags |-> <<>>]
      [] name = "Format" ->
            [term |-> CoreUniverse(sp, "Format"), ty |-> ValueUniverse("Kind"),
             diags |-> <<>>]
      [] name \in FormatNames ->
            [term |-> CoreItem(sp, name), ty |-> ValueUniverse("Format"),
             diags |-> <<>>]
      [] name \in TypeNames ->
            [term |-> CoreItem(sp, name), ty |-> ValueUniverse("Type"),
             diags |-> <<>>]
      [] name \in {"true", "false"} ->
            [term |-> CoreConstant(sp, name, 0), ty |-> BoolTy, diags |-> <<>>]
      [] OTHER ->
            [term |-> CoreError(sp), ty |-> ValueError,
             diags |-> <<Diagnostic("var_name_not_found", "error", sp, <<>>, name, <<>>)>>]

\* Mutant of synth_name: a name resolves against the labels of all the items
\* of the module, the item itself and the later ones included.
synth_name_any_item(its, sp, name) ==
    IF name \in DOMAIN its
    THEN [term |-> CoreItem(sp, name), ty |-> its[name].ty, diags |-> <<>>]
    ELSE IF \E i \in DOMAIN surface_items : surface_items[i].name = name
    THEN [term |-> CoreItem(sp, name), ty |-> ValueUniverse("Format"), diags |-> <<>>]
    ELSE synth_builtin(sp, name)

\* synth_term on a name: the item table first, then the built-in names.
synth_name(its, sp, name) ==
    IF name \in DOMAIN its
    THEN [term |-> CoreItem(sp, name), ty |-> its[name].ty, diags |-> <<>>]
    ELSE synth_builtin(sp, name)

\* check_term on a number literal.
check_number_literal(sp, v, expected_ty) ==
    LET error == [term |-> CoreError(sp),
                  diags |-> <<Diagnostic("numeric_literal_not_supported", "error",
                                         sp, <<>>, "", <<expected_ty>>)>>]
    IN  IF expected_ty.tag = "Neutral" /\ expected_ty.name = "Int"
        THEN IF parse_big_int(v) # <<>>
             THEN [term |-> CoreConstant(sp, "Int", parse_big_int(v)[1]), diags |-> <<>>]
             ELSE [term |-> CoreError(sp), diags |-> <<>>]
        ELSE IF expected_ty.tag = "Neutral" /\ expected_ty.name \in {"F32", "F64"}
        THEN IF parse_float(v) # <<>>
             THEN [term |-> CoreConstant(sp, expected_ty.name, parse_float(v)[1]),
                   diags |-> <<>>]
             ELSE [term |-> CoreError(sp), diags |-> <<>>]
        ELSE error

RECURSIVE elaborate_universe(_, _, _), check_term(_, _, _, _), synth_term(_, _, _)
RECURSIVE check_int_branches_from(_, _, _, _, _, _)

\* The operators below take the results of the calls a function makes as
\* parameters (r, head, if_true, ...), each a record [term, ty, diags] or
\* [term, diags], and give the function's result after those calls.

\* elaborate_universe after synth_term: `match synth_term(...)`.
universe_of_synth(sp, r) ==
    IF r.ty.tag \in {"Universe", "Error"}
    THEN [term |-> r.term, diags |-> r.diags]
    ELSE [term |-> CoreError(sp),
          diags |-> Append(r.diags,
              Diagnostic("universe_mismatch", "error", sp, <<>>, "", <<r.ty>>))]

\* Mutant of elaborate_universe: the reserved names are universes whether
\* or not an item of the module has their label.
elaborate_universe_reserved(its, sp, t) ==
    IF t.tag = "Name" /\ t.name \in {"Type", "Format", "Kind"}
    THEN [term |-> CoreUniverse(sp, t.name), diags |-> <<>>]
    ELSE universe_of_synth(sp, synth_term(its, sp, t))

elaborate_universe(its, sp, t) ==
    IF t.tag = "Name" /\ "Type" \notin DOMAIN its /\ t.name = "Type"
    THEN [term |-> CoreUniverse(sp, "Type"), diags |-> <<>>]
    ELSE IF t.tag = "Name" /\ "Format" \notin DOMAIN its /\ t.name = "Format"
    THEN [term |-> CoreUniverse(sp, "Format"), diags |-> <<>>]
    ELSE IF t.tag = "Name" /\ "Kind" \notin DOMAIN its /\ t.name = "Kind"
    THEN [term |-> CoreUniverse(sp, "Kind"), diags |-> <<>>]
    ELSE universe_of_synth(sp, synth_term(its, sp, t))

\* check_bool_branches: unimplemented!("boolean eliminators").
check_bool_branches(its, sp, surface_branches, expected_ty) ==
    [if_true |-> CoreError(SpanInitial), if_false |-> CoreError(SpanInitial),
     diags |-> <<Unwind("boolean eliminators")>>]

\* Mutant of int_branch: a repeated literal replaces the branch recorded
\* for its value.
int_branch_last_wins(acc, span, pattern, core_term) ==
    LET ds == acc.diags \o core_term.diags
        unreachable == Diagnostic("unreachable_pattern", "warning", span,
                                  <<>>, "", <<>>)
    IN  IF pattern.tag = "NumberLiteral"
        THEN IF acc.default = <<>>
             THEN [acc EXCEPT
                      !.branches = Insert(acc.branches,
                                          parse_big_int(pattern.lit)[1],
                                          core_term.term),
                      !.diags = ds]
             ELSE [acc EXCEPT !.diags = Append(ds, unreachable)]
        ELSE IF acc.default = <<>>
        THEN [acc EXCEPT !.default = <<core_term.term>>, !.diags = ds]
        ELSE [acc EXCEPT !.diags = Append(ds, unreachable)]

\* One turn of the loop of check_int_branches: acc is [branches, default,
\* diags], span the span of the pattern, core_term the checked term of the
\* branch.
int_branch(acc, span, pattern, core_term) ==
    LET ds == acc.diags \o core_term.diags
        unreachable == Diagnostic("unreachable_pattern", "warning", span,
                                  <<>>, "", <<>>)
    IN  IF pattern.tag = "NumberLiteral"
        THEN IF parse_big_int(pattern.lit) = <<>>
             THEN [acc EXCEPT !.diags = ds]
             ELSE IF acc.default = <<>>
                     /\ parse_big_int(pattern.lit)[1] \notin DOMAIN acc.branches
             THEN [acc EXCEPT
                      !.branches = Insert(acc.branches,
                                          parse_big_int(pattern.lit)[1],
                                          core_term.term),
                      !.diags = ds]
             ELSE [acc EXCEPT !.diags = Append(ds, unreachable)]
        ELSE IF acc.default = <<>>
        THEN [acc EXCEPT !.default = <<core_term.term>>, !.diags = ds]
        ELSE [acc EXCEPT !.diags = Append(ds, unreachable)]

\* The loop of check_int_branches from branch k on; the k-th branch has its
\* pattern at span sp \o <<k, 0>> and its term at sp \o <<k, 1>>.
check_int_branches_from(its, sp, surface_branches, expected_ty, k, acc) ==
    IF k > Len(surface_branches) THEN acc
    ELSE \* the checked term of branch k (c, evaluated once), then the rest
         CHOOSE r \in {check_int_branches_from(
                           its, sp, surface_branches, expected_ty, k + 1,
                           int_branch(acc, sp \o <<k, 0>>, surface_branches[k][1], c)) :
                          c \in {check_term(its, sp \o <<k, 1>>,
                                            surface_branches[k][2], expected_ty)}} : TRUE

\* Mutant of int_branches_default: a missing default is replaced by the
\* error term of the scrutinee and is not reported.
int_branches_default_silent(span, r) ==
    IF r.default # <<>>
    THEN [branches |-> r.branches, default |-> r.default[1], diags |-> r.diags]
    ELSE [branches |-> r.branches, default |-> CoreError(span), diags |-> r.diags]

\* check_int_branches after its loop: `default.unwrap_or_else`.
int_branches_default(span, r) ==
    IF r.default # <<>>
    THEN [branches |-> r.branches, default |-> r.default[1], diags |-> r.diags]
    ELSE [branches |-> r.branches, default |-> CoreError(SpanInitial),
          diags |-> Append(r.diags,
              Diagnostic("no_default_pattern", "error", span, <<>>, "", <<>>))]

\* check_int_branches; span is the span of the head of the match.
check_int_branches(its, sp, span, surface_branches, expected_ty) ==
    int_branches_default(span,
        check_int_branches_from(its, sp, surface_branches, expected_ty, 1,
            [branches |-> EmptyMap, default |-> <<>>, diags |-> <<>>]))

\* check_term and synth_term on `if`, after the head and the branches.
bool_elim(sp, head, if_true, if_false) ==
    [term |-> CoreBoolElim(sp, head.term, if_true.term, if_false.term),
     diags |-> head.diags \o if_true.diags \o if_false.diags]

\* check_term on `match`, after the branches.
bool_match(sp, head, b) ==
    [term |-> CoreBoolElim(sp, head.term, b.if_true, b.if_false),
     diags |-> head.diags \o b.diags]

int_match(sp, head, b) ==
    [term |-> CoreIntElim(sp, head.term, b.branches, b.default),
     diags |-> head.diags \o b.diags]

\* check_term on `match`, after synth_term on its head.
check_match(its, sp, t, expected_ty, head) ==
    IF head.ty = ValueItem("Bool")
    THEN bool_match(sp, head, check_bool_branches(its, sp, t.branches, expected_ty))
    ELSE IF head.ty = ValueItem("Int")
    THEN int_match(sp, head,
                   check_int_branches(its, sp, sp \o <<0>>, t.branches, expected_ty))
    ELSE IF head.ty = ValueError
    THEN [term |-> CoreError(sp), diags |-> head.diags]
    ELSE [term |-> CoreError(sp),
          diags |-> Append(head.diags,
              Diagnostic("unsupported_pattern_ty", "error", sp \o <<0>>,
                         <<>>, "", <<head.ty>>))]

\* Mutant of check_synth: the synthesized type must be the expected type
\* itself, the error value included.
check_synth_no_absorption(sp, r, expected_ty) ==
    IF r.ty = expected_ty
    THEN [term |-> r.term, diags |-> r.diags]
    ELSE [term |-> CoreError(sp),
          diags |-> Append(r.diags,
              Diagnostic("type_mismatch", "error", sp, <<>>, "",
                         <<expected_ty, r.ty>>))]

\* The last arm of check_term, after synth_term.
check_synth(sp, r, expected_ty) ==
    IF equal(r.ty, expected_ty)
    THEN [term |-> r.term, diags |-> r.diags]
    ELSE [term |-> CoreError(sp),
          diags |-> Append(r.diags,
              Diagnostic("type_mismatch", "error", sp, <<>>, "",
                         <<expected_ty, r.ty>>))]

check_term(its, sp, t, expected_ty) ==
    CASE t.tag = "Error" -> [term |-> CoreError(sp), diags |-> <<>>]
      [] t.tag # "Error" /\ expected_ty = ValueError ->
            [term |-> CoreError(sp), diags |-> <<>>]
      [] t.tag = "Paren" /\ expected_ty # ValueError ->
            check_term(its, sp \o <<0>>, t.term, expected_ty)
      [] t.tag = "NumberLiteral" /\ expected_ty # ValueError ->
            check_number_literal(sp, t.lit, expected_ty)
      [] t.tag = "If" /\ expected_ty # ValueError ->
            bool_elim(sp, check_term(its, sp \o <<0>>, t.head, BoolTy),
                      check_term(its, sp \o <<1>>, t.if_true, expected_ty),
                      check_term(its, sp \o <<2>>, t.if_false, expected_ty))
      [] t.tag = "Match" /\ expected_ty # ValueError ->
            check_match(its, sp, t, expected_ty, synth_term(its, sp \o <<0>>, t.head))
      [] OTHER ->
            check_synth(sp, synth_term(its, sp, t), expected_ty)

\* A term under its annotation, after check_term: core_ty is the elaborated
\* annotation and ty its value.
ann_of_check(core_ty, ty, core_term) ==
    [term |-> CoreAnn(core_term.term, core_ty.term), ty |-> ty,
     diags |-> core_ty.diags \o core_term.diags]

\* The term t with span sp against the annotation core_ty, after
\* elaborate_universe.
check_against(its, sp, t, core_ty) ==
    ann_of_check(core_ty, eval(core_ty.term),
                 check_term(its, sp, t, eval(core_ty.term)))

\* synth_term on `if`, after the head and the branches.
synth_if(sp, head, if_true, if_false) ==
    IF equal(if_true.ty, if_false.ty)
    THEN [term |-> CoreBoolElim(sp, head.term, if_true.term, if_false.term),
          ty |-> if_true.ty,
          diags |-> head.diags \o if_true.diags \o if_false.diags]
    ELSE [term |-> CoreError(sp), ty |-> ValueError,
          diags |-> Append(head.diags \o if_true.diags \o if_false.diags,
              Diagnostic("type_mismatch", "error", sp \o <<2>>, <<>>, "",
                         <<if_true.ty, if_false.ty>>))]

synth_term(its, sp, t) ==
    CASE t.tag = "Paren" -> synth_term(its, sp \o <<0>>, t.term)
      [] t.tag = "Ann" ->
            check_against(its, sp \o <<0>>, t.term,
                          elaborate_universe(its, sp \o <<1>>, t.ty))
      [] t.tag = "Name" -> synth_name(its, sp, t.name)
      [] t.tag = "NumberLiteral" ->
            [term |-> CoreError(sp), ty |-> ValueError,
             diags |-> <<Diagnostic("ambiguous_numeric_literal", "error", sp, <<>>, "", <<>>)>>]
      [] t.tag = "If" ->
            synth_if(sp, check_term(its, sp \o <<0>>, t.head, BoolTy),
                     synth_term(its, sp \o <<1>>, t.if_true),
                     synth_term(its, sp \o <<2>>, t.if_false))
      [] t.tag = "Match" ->
            [term |-> CoreError(sp), ty |-> ValueError,
             diags |-> <<Diagnostic("ambiguous_match_expression", "error", sp,
                                    <<>>, "", <<>>)>>]
      [] t.tag = "Error" -> [term |-> CoreError(sp), ty |-> ValueError, diags |-> <<>>]

(***************************************************************************)
(* Structure type fields: elaborate_struct_ty_fields.                      *)
(* A field context is [fields, core_fields, diags].                        *)
(***************************************************************************)

CoreTypeField(sp, l, t) == [start |-> sp, name |-> l, term |-> t]

\* Mutant of field_entry: a repeated field is reported and added all the same.
field_entry_keeps_repeated(fctx, label, field_span, ty) ==
    IF label \notin DOMAIN fctx.fields
    THEN [fields |-> Insert(fctx.fields, label, field_span),
          core_fields |-> Append(fctx.core_fields,
                                 CoreTypeField(field_span, label, ty.term)),
          diags |-> fctx.diags \o ty.diags]
    ELSE [fields |-> fctx.fields,
          core_fields |-> Append(fctx.core_fields,
                                 CoreTypeField(field_span, label, ty.term)),
          diags |-> (fctx.diags \o ty.diags) \o
                    <<Diagnostic("field_redeclaration", "error", field_span,
                                 fctx.fields[label], label, <<>>)>>]

\* Mutant of field_entry: a repeated field takes over the recorded span.
field_entry_last_span(fctx, label, field_span, ty) ==
    IF label \notin DOMAIN fctx.fields
    THEN [fields |-> Insert(fctx.fields, label, field_span),
          core_fields |-> Append(fctx.core_fields,
                                 CoreTypeField(field_span, label, ty.term)),
          diags |-> fctx.diags \o ty.diags]
    ELSE [fields |-> Insert(fctx.fields, label, field_span),
          core_fields |-> fctx.core_fields,
          diags |-> (fctx.diags \o ty.diags) \o
                    <<Diagnostic("field_redeclaration", "error", field_span,
                                 fctx.fields[label], label, <<>>)>>]

\* match context.fields.entry(label), given the checked field term.
field_entry(fctx, label, field_span, ty) ==
    IF label \notin DOMAIN fctx.fields
    THEN [fields |-> Insert(fctx.fields, label, field_span),
          core_fields |-> Append(fctx.core_fields,
                                 CoreTypeField(field_span, label, ty.term)),
          diags |-> fctx.diags \o ty.diags]
    ELSE [fields |-> fctx.fields,
          core_fields |-> fctx.core_fields,
          diags |-> (fctx.diags \o ty.diags) \o
                    <<Diagnostic("field_redeclaration", "error", field_span,
                                 fctx.fields[label], label, <<>>)>>]

\* Mutant of elaborate_field: the term of a field is checked in a context
\* that also holds the fields accepted so far.
elaborate_field_sees_fields(fctx, its, sp, j, field) ==
    field_entry(fctx, field.name, sp \o <<j>>,
                check_term([l \in DOMAIN its \cup DOMAIN fctx.fields |->
                               IF l \in DOMAIN its THEN its[l]
                               ELSE [span |-> fctx.fields[l],
                                     ty |-> ValueUniverse("Format")]],
                           sp \o <<j, 1>>, field.term, ValueUniverse("Format")))

\* The body of the loop over the fields: field j of the struct with span sp.
elaborate_field(fctx, its, sp, j, field) ==
    field_entry(fctx, field.name, sp \o <<j>>,
                check_term(its, sp \o <<j, 1>>, field.term, ValueUniverse("Format")))

NewFieldContext == [fields |-> EmptyMap, core_fields |-> <<>>, diags |-> <<>>]

RECURSIVE elaborate_fields_from(_, _, _, _, _)
elaborate_fields_from(fctx, its, sp, fs, j) ==
    IF j > Len(fs) THEN fctx
    ELSE \* the context after field j (n, evaluated once), then the rest
         CHOOSE r \in {elaborate_fields_from(n, its, sp, fs, j + 1) :
                          n \in {elaborate_field(fctx, its, sp, j, fs[j])}} : TRUE

elaborate_struct_ty_fields(its, sp, fs) ==
    elaborate_fields_from(NewFieldContext, its, sp, fs, 1)

(***************************************************************************)
(* Items: elaborate_items.                                                 *)
(* An item context is [items, core_items, diags].                          *)
(***************************************************************************)
CoreAlias(sp, l, t) == [kind |-> "Alias", span |-> sp, name |-> l, term |-> t]
CoreStructType(sp, l, fs) == [kind |-> "Struct", span |-> sp, name |-> l, fields |-> fs]

\* Mutant of item_entry: a duplicate takes over the recorded span.
item_entry_last_span(ctx, label, sp, ty, item, ds) ==
    IF label \notin DOMAIN ctx.items
    THEN [items |-> Insert(ctx.items, label, [span |-> sp, ty |-> ty]),
          core_items |-> Append(ctx.core_items, item),
          diags |-> ctx.diags \o ds]
    ELSE [items |-> Insert(ctx.items, label,
                           [span |-> sp, ty |-> ctx.items[label].ty]),
          core_items |-> ctx.core_items,
          diags |-> (ctx.diags \o ds) \o
                    <<Diagnostic("item_redefinition", "error", sp,
                                 ctx.items[label].span, label, <<>>)>>]

\* Mutant of item_entry: a duplicate is reported and the table entry takes
\* its type (the first span is kept).
item_entry_last_type(ctx, label, sp, ty, item, ds) ==
    IF label \notin DOMAIN ctx.items
    THEN [items |-> Insert(ctx.items, label, [span |-> sp, ty |-> ty]),
          core_items |-> Append(ctx.core_items, item),
          diags |-> ctx.diags \o ds]
    ELSE [items |-> Insert(ctx.items, label,
                           [span |-> ctx.items[label].span, ty |-> ty]),
          core_items |-> ctx.core_items,
          diags |-> (ctx.diags \o ds) \o
                    <<Diagnostic("item_redefinition", "error", sp,
                                 ctx.items[label].span, label, <<>>)>>]

\* Mutant of item_entry: an item whose elaboration reported a diagnostic is
\* dropped.
item_entry_drops_failed(ctx, label, sp, ty, item, ds) ==
    IF label \notin DOMAIN ctx.items /\ ds = <<>>
    THEN [items |-> Insert(ctx.items, label, [span |-> sp, ty |-> ty]),
          core_items |-> Append(ctx.core_items, item),
          diags |-> ctx.diags]
    ELSE IF label \notin DOMAIN ctx.items
    THEN [items |-> ctx.items,
          core_items |-> ctx.core_items,
          diags |-> ctx.diags \o ds]
    ELSE [items |-> ctx.items,
          core_items |-> ctx.core_items,
          diags |-> (ctx.diags \o ds) \o
                    <<Diagnostic("item_redefinition", "error", sp,
                                 ctx.items[label].span, label, <<>>)>>]

\* match context.items.entry(label): item is the core item to append, ds the
\* diagnostics reported while its body was elaborated.
item_entry(ctx, label, sp, ty, item, ds) ==
    IF label \notin DOMAIN ctx.items
    THEN [items |-> Insert(ctx.items, label, [span |-> sp, ty |-> ty]),
          core_items |-> Append(ctx.core_items, item),
          diags |-> ctx.diags \o ds]
    ELSE [items |-> ctx.items,
          core_items |-> ctx.core_items,
          diags |-> (ctx.diags \o ds) \o
                    <<Diagnostic("item_redefinition", "error", sp,
                                 ctx.items[label].span, label, <<>>)>>]

\* The term and type of an alias, with or without a type annotation.
elaborate_alias_term(its, sp, alias) ==
    IF alias.ty # <<>>
    THEN check_against(its, sp \o <<1>>, alias.term,
                       elaborate_universe(its, sp \o <<0>>, alias.ty[1]))
    ELSE synth_term(its, sp \o <<1>>, alias.term)

\* match context.items.entry(label) on an alias, r its term and type.
alias_entry(ctx, sp, alias, r) ==
    item_entry(ctx, alias.name, sp, r.ty, CoreAlias(sp, alias.name, r.term), r.diags)

elaborate_alias(ctx, sp, alias) ==
    alias_entry(ctx, sp, alias, elaborate_alias_term(ctx.items, sp, alias))

\* match context.items.entry(label) on a struct recorded with type ty, r
\* its elaborated fields.
struct_entry(ctx, sp, struct_ty, ty, r) ==
    item_entry(ctx, struct_ty.name, sp, ty,
               CoreStructType(sp, struct_ty.name, r.core_fields), r.diags)

\* Mutant of elaborate_struct: the struct is recorded with type Type.
elaborate_struct_as_type(ctx, sp, struct_ty) ==
    struct_entry(ctx, sp, struct_ty, ValueUniverse("Type"),
                 elaborate_struct_ty_fields(ctx.items, sp, struct_ty.fields))

elaborate_struct(ctx, sp, struct_ty) ==
    struct_entry(ctx, sp, struct_ty, ValueUniverse("Format"),
                 elaborate_struct_ty_fields(ctx.items, sp, struct_ty.fields))

ItemContext == [items |-> items, core_items |-> core_items, diags |-> diags]

(***************************************************************************)
(* The surface modules the elaborator is run on.                           *)
(***************************************************************************)
SeqsUpTo(S, n) == UNION {[1..k -> S] : k \in 0..n}

AliasLabels == {"A", "B"}
AliasBodies == {Name("A"), Name("U8"), Name("true")}
StructBodies ==
    {<<TypeField("x", Name("U32Be")), TypeField("x", Name("A")),
       TypeField("y", Name("B"))>>,
     <<TypeField("x", Name("A")), TypeField("y", Name("U8"))>>}

SurfaceItems ==
    {Alias(l, <<>>, b) : l \in AliasLabels, b \in AliasBodies}
    \cup {Alias("B", <<Name("U8")>>, NumberLiteral(256)),
          Alias("U8", <<>>, Name("true"))}
    \cup {Struct(l, fs) : l \in AliasLabels, fs \in StructBodies}

NoFields ==
    /\ surface_fields = <<>>
    /\ fidx = 0
    /\ fields = EmptyMap
    /\ core_fields = <<>>

Init ==
    /\ surface_items \in SeqsUpTo(SurfaceItems, MaxItems)
    /\ idx = 0
    /\ items = EmptyMap
    /\ core_items = <<>>
    /\ diags = <<>>
    /\ aborted = FALSE
    /\ NoFields
    /\ NoSemantics

\* One iteration of `for item in surface_items.iter()`, on an alias.
ElaborateAlias ==
    /\ ~aborted
    /\ idx < Len(surface_items)
    /\ surface_items[idx + 1].kind = "Alias"
    /\ \E ctx \in {elaborate_alias(ItemContext, <<idx + 1>>, surface_items[idx + 1])} :
           IF Panics(ctx.diags)
           THEN /\ aborted' = TRUE
                /\ diags' = BeforePanic(ctx.diags)
                /\ UNCHANGED <<items, core_items, idx>>
           ELSE /\ items' = ctx.items
                /\ core_items' = ctx.core_items
                /\ diags' = ctx.diags
                /\ idx' = idx + 1
                /\ UNCHANGED aborted
    /\ UNCHANGED <<surface_items, surface_fields, fidx, fields, core_fields>>
    /\ UNCHANGED <<sem_vars, norm_vars, infer_vars>>

\* One iteration of `for item in surface_items.iter()`, on a struct.
ElaborateStruct ==
    /\ ~aborted
    /\ idx < Len(surface_items)
    /\ surface_items[idx + 1].kind = "Struct"
    /\ \E ctx \in {elaborate_struct(ItemContext, <<idx + 1>>, surface_items[idx + 1])} :
           IF Panics(ctx.diags)
           THEN /\ aborted' = TRUE
                /\ diags' = BeforePanic(ctx.diags)
                /\ UNCHANGED <<items, core_items, idx>>
           ELSE /\ items' = ctx.items
                /\ core_items' = ctx.core_items
                /\ diags' = ctx.diags
                /\ idx' = idx + 1
                /\ UNCHANGED aborted
    /\ UNCHANGED <<surface_items, surface_fields, fidx, fields, core_fields>>
    /\ UNCHANGED <<sem_vars, norm_vars, infer_vars>>

Next == ElaborateAlias \/ ElaborateStruct

Spec == Init /\ [][Next]_vars

(***************************************************************************)
(* elaborate_struct_ty_fields on its own, one field per step, for a        *)
(* struct with span StructSpan under a fixed item table.                   *)
(***************************************************************************)
StructSpan == <<2>>
FieldLabels == {"x", "y"}
FieldTerms == {Name("U32Be"), Name("A"), Name("X"), Name("x")}
SurfaceFields == {TypeField(l, t) : l \in FieldLabels, t \in FieldTerms}
FieldItemTables ==
    {EmptyMap,
     Insert(EmptyMap, "A", [span |-> <<1>>, ty |-> ValueUniverse("Format")]),
     Insert(EmptyMap, "A", [span |-> <<1>>, ty |-> BoolTy])}

InitFields ==
    /\ surface_fields \in SeqsUpTo(SurfaceFields, MaxFields)
    /\ fidx = 0
    /\ fields = EmptyMap
    /\ core_fields = <<>>
    /\ diags = <<>>
    /\ aborted = FALSE
    /\ items \in FieldItemTables
    /\ surface_items = <<>>
    /\ idx = 0
    /\ core_items = <<>>
    /\ NoSemantics

FieldContext == [fields |-> fields, core_fields |-> core_fields, diags |-> diags]

\* One iteration of `for field in surface_fields`.
ElaborateField ==
    /\ ~aborted
    /\ fidx < Len(surface_fields)
    /\ \E fctx \in {elaborate_field(FieldContext, items, StructSpan, fidx + 1,
                                     surface_fields[fidx + 1])} :
           IF Panics(fctx.diags)
           THEN /\ aborted' = TRUE
                /\ diags' = BeforePanic(fctx.diags)
                /\ UNCHANGED <<fields, core_fields, fidx>>
           ELSE /\ fields' = fctx.fields
                /\ core_fields' = fctx.core_fields
                /\ diags' = fctx.diags
                /\ fidx' = fidx + 1
                /\ UNCHANGED aborted
    /\ UNCHANGED <<surface_fields, items, surface_items, idx, core_items>>
    /\ UNCHANGED <<sem_vars, norm_vars, infer_vars>>

NextFields == ElaborateField

SpecFields == InitFields /\ [][NextFields]_vars

(***************************************************************************)
(* elaborate_items on modules that end in one item under study: an alias   *)
(* T, with or without a type annotation, or a struct S with one field,     *)
(* after a prelude of items the term of that item may refer to.            *)
(***************************************************************************)
MaxBranches == 3

\* A : the error value (its body is an unbound name), n : Int.
ValuePrelude ==
    <<Alias("A", <<>>, Name("X")), Alias("n", <<Name("Int")>>, NumberLiteral(0))>>

\* Items that take the name of a universe: a struct (of type Format), an
\* alias of a universe, of an unbound name and of a boolean.
UniverseNames == {"Type", "Format", "Kind"}
ShadowItems ==
    {Struct(u, <<>>) : u \in UniverseNames}
    \cup {Alias(u, <<>>, b) : u \in UniverseNames,
                              b \in {Name("Type"), Name("X"), Name("true")}}
ShadowPreludes == {<<>>} \cup {<<i>> : i \in ShadowItems}

Atoms ==
    {Name("A"), Name("n"), Name("X"), Name("true"), Name("U8"), Name("Int"),
     NumberLiteral(7), SurfaceError}

Annotations ==
    {<<>>} \cup {<<a>> : a \in {Name("Int"), Name("Bool"), Name("Format"),
                               Name("Type"), Name("X"), Name("A"), SurfaceError}}

IfTerms ==
    {If(c, a, b) : c \in {Name("true"), Name("X"), Name("A"), Name("n")},
                   a \in {Name("U8"), Name("n"), Name("A"), Name("X"),
                          Name("true"), NumberLiteral(7)},
                   b \in {Name("U8"), Name("n"), Name("A"), Name("X"),
                          Name("true"), NumberLiteral(7)}}

MatchBranches ==
    {<<PatternNumberLiteral(0), NumberLiteral(7)>>,
     <<PatternNumberLiteral(1), NumberLiteral(7)>>,
     <<PatternNumberLiteral(0), Name("X")>>,
     <<PatternName("x"), NumberLiteral(7)>>}

MatchHeads ==
    {Name("n"), Paren(Name("n")), Name("true"), Name("A"), Name("X"), Name("U8")}

MatchTerms ==
    {Match(h, bs) : h \in MatchHeads, bs \in SeqsUpTo(MatchBranches, MaxBranches)}

WrappedTerms ==
    {Paren(a) : a \in Atoms}
    \cup {Ann(a, ty) : a \in Atoms,
                       ty \in {Name("Int"), Name("Type"), Name("X"), Name("A")}}

StudiedTerms == Atoms \cup IfTerms \cup MatchTerms \cup WrappedTerms

TermModules ==
    {Append(ValuePrelude, Alias("T", ty, t)) : ty \in Annotations, t \in StudiedTerms}
    \cup {Append(ValuePrelude, Struct("S", <<TypeField("f", t)>>)) :
              t \in Atoms \cup WrappedTerms}
    \cup {Append(pre, Alias("T", <<ty>>, Name("U8"))) :
              pre \in ShadowPreludes,
              ty \in {Name(u) : u \in UniverseNames}
                     \cup {Paren(Name(u)) : u \in UniverseNames}}

InitTerms ==
    /\ surface_items \in TermModules
    /\ idx = 0
    /\ items = EmptyMap
    /\ core_items = <<>>
    /\ diags = <<>>
    /\ aborted = FALSE
    /\ NoFields
    /\ NoSemantics

SpecTerms == InitTerms /\ [][Next]_vars

(***************************************************************************)
(* The core semantics (src/semantics/mod.rs).                              *)
(*                                                                         *)
(* num_bigint::BigInt is a sign and a magnitude; the magnitude is a        *)
(* sequence of base-2^16 digits, most significant first, without leading   *)
(* zeros (zero is the empty magnitude and is not negative).                *)
(***************************************************************************)
Base == 2 ^ 16

BigInt(neg, mag) == [neg |-> neg, mag |-> mag]

RECURSIVE Digits(_)
Digits(n) == IF n = 0 THEN <<>> ELSE Append(Digits(n \div Base), n % Base)

\* T::into() for a machine integer that fits a model integer.
BigFrom(n) == IF n < 0 THEN BigInt(TRUE, Digits(-n)) ELSE BigInt(FALSE, Digits(n))

Front(s) == SubSeq(s, 1, Len(s) - 1)

RECURSIVE MagSucc(_)
MagSucc(m) ==
    IF m = <<>> THEN <<1>>
    ELSE IF m[Len(m)] < Base - 1 THEN [m EXCEPT ![Len(m)] = @ + 1]
    ELSE Append(MagSucc(Front(m)), 0)

RECURSIVE MagPred(_)
MagPred(m) ==
    IF m = <<1>> THEN <<>>
    ELSE IF m[Len(m)] > 0 THEN [m EXCEPT ![Len(m)] = @ - 1]
    ELSE Append(MagPred(Front(m)), Base - 1)

\* b + 1 and b - 1.
BigSucc(b) ==
    IF b.neg
    THEN BigInt(MagPred(b.mag) # <<>>, MagPred(b.mag))
    ELSE BigInt(FALSE, MagSucc(b.mag))

BigPred(b) ==
    IF b.neg THEN BigInt(TRUE, MagSucc(b.mag))
    ELSE IF b.mag = <<>> THEN BigInt(TRUE, <<1>>)
    ELSE BigInt(FALSE, MagPred(b.mag))

MagLess(a, b) ==
    \/ Len(a) < Len(b)
    \/ /\ Len(a) = Len(b)
       /\ \E i \in 1..Len(a) :
             /\ a[i] < b[i]
             /\ \A j \in 1..(i - 1) : a[j] = b[j]

\* a < b and a <= b on BigInt (its Ord).
BigLt(a, b) ==
    IF a.neg # b.neg THEN a.neg
    ELSE IF a.neg THEN MagLess(b.mag, a.mag)
    ELSE MagLess(a.mag, b.mag)

BigLe(a, b) == a = b \/ BigLt(a, b)

\* The machine integer types whose limits the code uses.
u8 == [signed |-> FALSE, bits |-> 8]
u16 == [signed |-> FALSE, bits |-> 16]
u32 == [signed |-> FALSE, bits |-> 32]
u64 == [signed |-> FALSE, bits |-> 64]
i8 == [signed |-> TRUE, bits |-> 8]
i16 == [signed |-> TRUE, bits |-> 16]
i32 == [signed |-> TRUE, bits |-> 32]
i64 == [signed |-> TRUE, bits |-> 64]

Repeat(d, k) == [i \in 1..k |-> d]

\* T::min_value() / T::MIN and T::max_value() / T::MAX, converted into BigInt.
min_value(T) ==
    IF ~T.signed THEN BigFrom(0)
    ELSE IF T.bits = 8 THEN BigFrom(-(2 ^ 7))
    ELSE BigInt(TRUE, <<Base \div 2>> \o Repeat(0, T.bits \div 16 - 1))

max_value(T) ==
    IF T.bits = 8 THEN BigFrom(IF T.signed THEN 2 ^ 7 - 1 ELSE 2 ^ 8 - 1)
    ELSE IF T.signed
    THEN BigInt(FALSE, <<Base \div 2 - 1>> \o Repeat(Base - 1, T.bits \div 16 - 1))
    ELSE BigInt(FALSE, Repeat(Base - 1, T.bits \div 16))

\* Literals and values.
LiteralBool(b) == [tag |-> "Bool", value |-> b]
LiteralString(v) == [tag |-> "String", value |-> v]
LiteralChar(v) == [tag |-> "Char", value |-> v]
LiteralInt(v) == [tag |-> "Int", value |-> v]
LiteralF32(v) == [tag |-> "F32", value |-> v]
LiteralF64(v) == [tag |-> "F64", value |-> v]

Universe(level) == [tag |-> "Universe", level |-> level]
Literal(lit) == [tag |-> "Literal", literal |-> lit]
IntType(min, max) == [tag |-> "IntType", min |-> min, max |-> max]
Pi(param, body) == [tag |-> "Pi", ann |-> param, body |-> body]
HeadGlobal(name) == [tag |-> "Global", name |-> name]
HeadVar(name) == [tag |-> "Var", name |-> name]
Neutral(head, spine) == [tag |-> "Neutral", head |-> head, spine |-> spine]
global(name) == Neutral(HeadGlobal(name), <<>>)
var(name) == Neutral(HeadVar(name), <<>>)

\* Value::global_app: the name and the spine of an applied global.
global_app(v) ==
    IF v.tag = "Neutral" /\ v.head.tag = "Global"
    THEN Some([name |-> v.head.name, spine |-> v.spine])
    ELSE None

\* Value::term_eq on normal forms without binders: structural equality.
term_eq(v1, v2) == v1 = v2

int_ty(min, max) ==
    IntType(IF min = None THEN None ELSE Some(Literal(LiteralInt(min[1]))),
            IF max = None THEN None ELSE Some(Literal(LiteralInt(max[1]))))

universe0 == Universe(0)
bool_ty == global("Bool")
nat_ty == IntType(Some(Literal(LiteralInt(BigFrom(0)))), None)

\* The machine type behind each global that is sugar for an interval type.
SizedInts ==
    [U8 |-> u8, U16 |-> u16, U32 |-> u32, U64 |-> u64,
     S8 |-> i8, S16 |-> i16, S32 |-> i32, S64 |-> i64]

UndefinedGlobals ==
    {"Bool", "String", "Char", "F32", "F64",
     "U16Le", "U32Le", "U64Le", "S16Le", "S32Le", "S64Le", "F32Le", "F64Le",
     "U16Be", "U32Be", "U64Be", "S16Be", "S32Be", "S64Be", "F32Be", "F64Be"}

\* Mutant of globals: S16 is given the limits of i32.
globals_s16_as_i32 ==
    [name \in DOMAIN SizedInts |->
        [value |-> Some(int_ty(
                      Some(min_value(IF name = "S16" THEN i32 ELSE SizedInts[name])),
                      Some(max_value(IF name = "S16" THEN i32 ELSE SizedInts[name])))),
         ty |-> universe0]]
    @@ [name \in UndefinedGlobals |-> [value |-> None, ty |-> universe0]]
    @@ [name \in {"true", "false"} |->
           [value |-> Some(Literal(LiteralBool(name = "true"))), ty |-> bool_ty]]
    @@ [name \in {"Array"} |->
           [value |-> None, ty |-> Pi(nat_ty, Pi(universe0, universe0))]]

\* TcEnv::default().globals: name -> (definition, type).
globals ==
    [name \in DOMAIN SizedInts |->
        [value |-> Some(int_ty(Some(min_value(SizedInts[name])),
                               Some(max_value(SizedInts[name])))),
         ty |-> universe0]]
    @@ [name \in UndefinedGlobals |-> [value |-> None, ty |-> universe0]]
    @@ [name \in {"true", "false"} |->
           [value |-> Some(Literal(LiteralBool(name = "true"))), ty |-> bool_ty]]
    @@ [name \in {"Array"} |->
           [value |-> None, ty |-> Pi(nat_ty, Pi(universe0, universe0))]]

\* normalize on Term::Global(name).
normalize_global(name) ==
    IF name \in DOMAIN globals /\ globals[name].value # None
    THEN globals[name].value[1]
    ELSE global(name)

is_name(ty, name) ==
    /\ ty.tag = "Neutral"
    /\ ty.head = HeadGlobal(name)
    /\ ty.spine = <<>>

is_int_literal(v) == v.tag = "Literal" /\ v.literal.tag = "Int"

\* Mutant of in_min_bound: the literal comparison is the other way round.
in_min_bound_flipped(min1, min2) ==
    IF min1 = None /\ min2 = None THEN TRUE
    ELSE IF min2 = None THEN TRUE
    ELSE IF min1 = None THEN FALSE
    ELSE IF is_int_literal(min1[1]) /\ is_int_literal(min2[1])
    THEN BigLe(min1[1].literal.value, min2[1].literal.value)
    ELSE term_eq(min1[1], min2[1])

\* is_subtype, `let in_min_bound`.
in_min_bound(min1, min2) ==
    IF min1 = None /\ min2 = None THEN TRUE
    ELSE IF min2 = None THEN TRUE
    ELSE IF min1 = None THEN FALSE
    ELSE IF is_int_literal(min1[1]) /\ is_int_literal(min2[1])
    THEN BigLe(min2[1].literal.value, min1[1].literal.value)
    ELSE term_eq(min1[1], min2[1])

\* Mutant of in_max_bound: the literal comparison is strict.
in_max_bound_strict(max1, max2) ==
    IF max1 = None /\ max2 = None THEN TRUE
    ELSE IF max2 = None THEN TRUE
    ELSE IF max1 = None THEN FALSE
    ELSE IF is_int_literal(max1[1]) /\ is_int_literal(max2[1])
    THEN BigLt(max1[1].literal.value, max2[1].literal.value)
    ELSE term_eq(max1[1], max2[1])

\* is_subtype, `let in_max_bound`.
in_max_bound(max1, max2) ==
    IF max1 = None /\ max2 = None THEN TRUE
    ELSE IF max2 = None THEN TRUE
    ELSE IF max1 = None THEN FALSE
    ELSE IF is_int_literal(max1[1]) /\ is_int_literal(max2[1])
    THEN BigLe(max1[1].literal.value, max2[1].literal.value)
    ELSE term_eq(max1[1], max2[1])

\* Mutant of EndianInts: the big-endian S32Be is given the limits of u32.
EndianInts_s32be_as_u32 ==
    [U16Le |-> u16, U32Le |-> u32, U64Le |-> u64,
     S16Le |-> i16, S32Le |-> i32, S64Le |-> i64,
     U16Be |-> u16, U32Be |-> u32, U64Be |-> u64,
     S16Be |-> i16, S32Be |-> u32, S64Be |-> i64]

\* The machine type behind each sized endian integer global.
EndianInts ==
    [U16Le |-> u16, U32Le |-> u32, U64Le |-> u64,
     S16Le |-> i16, S32Le |-> i32, S64Le |-> i64,
     U16Be |-> u16, U32Be |-> u32, U64Be |-> u64,
     S16Be |-> i16, S32Be |-> i32, S64Be |-> i64]

\* Mutant of EndianFloats: F32Be is erased to F64.
EndianFloats_f32be_as_f64 ==
    [F32Le |-> "F32", F64Le |-> "F64", F32Be |-> "F64", F64Be |-> "F64"]

\* The float type each endian float global erases to.
EndianFloats ==
    [F32Le |-> "F32", F64Le |-> "F64", F32Be |-> "F32", F64Be |-> "F64"]

RECURSIVE is_subtype(_, _)
is_subtype(t1, t2) ==
    IF t1.tag = "IntType" /\ t2.tag = "IntType"
    THEN in_min_bound(t1.min, t2.min) /\ in_max_bound(t1.max, t2.max)
    ELSE IF \E name \in DOMAIN EndianInts : is_name(t1, name)
    THEN LET T == EndianInts[t1.head.name]
         IN  is_subtype(int_ty(Some(min_value(T)), Some(max_value(T))), t2)
    ELSE IF \E name \in DOMAIN EndianFloats :
               is_name(t1, name) /\ is_name(t2, EndianFloats[name])
    THEN TRUE
    ELSE term_eq(t1, t2)

\* Raw literals.
RawString(v) == [tag |-> "String", value |-> v]
RawChar(v) == [tag |-> "Char", value |-> v]
RawInt(v) == [tag |-> "Int", value |-> v]
RawFloat(v) == [tag |-> "Float", value |-> v]

Ok(v) == [ok |-> TRUE, value |-> v]
Err(e) == [ok |-> FALSE, error |-> e]

\* BigInt::to_f32 / to_f64 and the `as f32` cast: the nearest float of the
\* width, named by the number it rounds.
to_float(bits, v) == [rounded |-> v, bits |-> bits]

infer_literal(raw) ==
    IF raw.tag = "String"
    THEN Ok([literal |-> LiteralString(raw.value), ty |-> global("String")])
    ELSE IF raw.tag = "Char"
    THEN Ok([literal |-> LiteralChar(raw.value), ty |-> global("Char")])
    ELSE IF raw.tag = "Int"
    THEN Ok([literal |-> LiteralInt(raw.value),
             ty |-> IntType(Some(Literal(LiteralInt(raw.value))),
                            Some(Literal(LiteralInt(raw.value))))])
    ELSE Err("AmbiguousFloatLiteral")

check_literal(raw, expected_ty) ==
    LET app == global_app(expected_ty)
        name == IF app # None /\ app[1].spine = <<>> THEN app[1].name ELSE ""
    IN  IF raw.tag = "String" /\ name = "String" THEN Ok(LiteralString(raw.value))
        ELSE IF raw.tag = "Char" /\ name = "Char" THEN Ok(LiteralChar(raw.value))
        ELSE IF raw.tag = "Int" /\ name = "F32"
        THEN Ok(LiteralF32(to_float(32, raw.value)))
        ELSE IF raw.tag = "Int" /\ name = "F64"
        THEN Ok(LiteralF64(to_float(64, raw.value)))
        ELSE IF raw.tag = "Float" /\ name = "F32"
        THEN Ok(LiteralF32(to_float(32, raw.value)))
        ELSE IF raw.tag = "Float" /\ name = "F64"
        THEN Ok(LiteralF64(raw.value))
        ELSE LET inferred == infer_literal(raw)
             IN  IF ~inferred.ok THEN inferred
                 ELSE IF is_subtype(inferred.value.ty, expected_ty)
                 THEN Ok(inferred.value.literal)
                 ELSE Err("LiteralMismatch")

(***************************************************************************)
(* Core terms and normalization (normalize, match_value).                  *)
(*                                                                         *)
(* Binding follows the moniker crate: a scope holds its body with the      *)
(* variables it binds as de Bruijn indices (Bound), every other variable   *)
(* is free and named.  Alpha-equivalence is then equality.  `unbind`       *)
(* replaces the index of the scope by a fresh free name, `Scope::new`      *)
(* closes the body over that name again.                                   *)
(***************************************************************************)
Free(name) == [tag |-> "Free", name |-> name]
Bound(index) == [tag |-> "Bound", index |-> index]

TermAnn(expr, ty) == [tag |-> "Ann", expr |-> expr, ty |-> ty]
TermUniverse(level) == [tag |-> "Universe", level |-> level]
TermIntType(min, max) == [tag |-> "IntType", min |-> min, max |-> max]
TermLiteral(lit) == [tag |-> "Literal", literal |-> lit]
TermVar(v) == [tag |-> "Var", var |-> v]
TermExtern(name, ty) == [tag |-> "Extern", name |-> name, ty |-> ty]
TermGlobal(name) == [tag |-> "Global", name |-> name]
TermPi(param, body) == [tag |-> "Pi", ann |-> param, body |-> body]
TermLam(param, body) == [tag |-> "Lam", ann |-> param, body |-> body]
TermApp(head, arg) == [tag |-> "App", head |-> head, arg |-> arg]
TermIf(cond, if_true, if_false) ==
    [tag |-> "If", cond |-> cond, if_true |-> if_true, if_false |-> if_false]
TermRecordType(label, param, body) ==
    [tag |-> "RecordType", label |-> label, ann |-> param, body |-> body]
TermRecordTypeEmpty == [tag |-> "RecordTypeEmpty"]
TermRecord(label, term, body) ==
    [tag |-> "Record", label |-> label, term |-> term, body |-> body]
TermRecordEmpty == [tag |-> "RecordEmpty"]
TermProj(expr, label) == [tag |-> "Proj", expr |-> expr, label |-> label]
TermCase(head, clauses) == [tag |-> "Case", head |-> head, clauses |-> clauses]
TermArray(elems) == [tag |-> "Array", elems |-> elems]

\* Patterns; a clause is a scope <<pattern, body>>.
PatternLiteral(lit) == [tag |-> "Literal", literal |-> lit]
PatternBinder == [tag |-> "Binder"]
\* Pattern::Ann(pattern, Embed(ty)); the annotations studied are closed terms.
PatternAnn(pattern, ty) == [tag |-> "Ann", pattern |-> pattern, ty |-> ty]

\* Values besides Universe, IntType, Literal, Pi and Neutral above.
Lam(param, body) == [tag |-> "Lam", ann |-> param, body |-> body]
RecordType(label, param, body) ==
    [tag |-> "RecordType", label |-> label, ann |-> param, body |-> body]
RecordTypeEmpty == [tag |-> "RecordTypeEmpty"]
Record(label, value, body) ==
    [tag |-> "Record", label |-> label, value |-> value, body |-> body]
RecordEmpty == [tag |-> "RecordEmpty"]
Array(elems) == [tag |-> "Array", elems |-> elems]

\* Neutral terms besides the heads HeadGlobal and HeadVar above.
HeadBound(index) == [tag |-> "Bound", index |-> index]
HeadExtern(name, ty) == [tag |-> "Extern", name |-> name, ty |-> ty]
NeutralIf(cond, if_true, if_false) ==
    [tag |-> "If", cond |-> cond, if_true |-> if_true, if_false |-> if_false]
NeutralProj(expr, label) == [tag |-> "Proj", expr |-> expr, label |-> label]
NeutralCase(head, clauses) == [tag |-> "Case", head |-> head, clauses |-> clauses]

\* The name FreeVar::fresh gives inside d enclosing scopes that are open.
FreshNames == <<"$0", "$1", "$2", "$3", "$4", "$5">>
fresh(d) == FreshNames[d + 1]

\* A term with the variable bound k scopes up replaced by the term u:
\* `unbind` when u is a fresh free variable, `unbind` followed by `substs`
\* of that variable when u is the term substituted.
RECURSIVE open_term(_, _, _)
open_opt(x, k, u) == IF x = None THEN None ELSE Some(open_term(x[1], k, u))
open_term(t, k, u) ==
    CASE t.tag = "Var" ->
            IF t.var.tag = "Bound" /\ t.var.index = k THEN u ELSE t
      [] t.tag = "Ann" -> TermAnn(open_term(t.expr, k, u), open_term(t.ty, k, u))
      [] t.tag = "IntType" -> TermIntType(open_opt(t.min, k, u), open_opt(t.max, k, u))
      [] t.tag = "Extern" -> TermExtern(t.name, open_term(t.ty, k, u))
      [] t.tag = "Pi" -> TermPi(open_term(t.ann, k, u), open_term(t.body, k + 1, u))
      [] t.tag = "Lam" -> TermLam(open_term(t.ann, k, u), open_term(t.body, k + 1, u))
      [] t.tag = "App" -> TermApp(open_term(t.head, k, u), open_term(t.arg, k, u))
      [] t.tag = "If" ->
            TermIf(open_term(t.cond, k, u), open_term(t.if_true, k, u),
                   open_term(t.if_false, k, u))
      [] t.tag = "RecordType" ->
            TermRecordType(t.label, open_term(t.ann, k, u), open_term(t.body, k + 1, u))
      [] t.tag = "Record" ->
            TermRecord(t.label, open_term(t.term, k, u), open_term(t.body, k + 1, u))
      [] t.tag = "Proj" -> TermProj(open_term(t.expr, k, u), t.label)
      [] t.tag = "Case" ->
            TermCase(open_term(t.head, k, u),
                     [i \in DOMAIN t.clauses |->
                         <<t.clauses[i][1], open_term(t.clauses[i][2], k + 1, u)>>])
      [] t.tag = "Array" ->
            TermArray([i \in DOMAIN t.elems |-> open_term(t.elems[i], k, u)])
      [] OTHER -> t

\* Scope::new on a value: the free variable `name` becomes the variable
\* bound k scopes up.
RECURSIVE close_value(_, _, _), close_neutral(_, _, _)
close_opt(x, k, name) == IF x = None THEN None ELSE Some(close_value(x[1], k, name))
close_neutral(n, k, name) ==
    CASE n.tag = "Var" -> IF n.name = name THEN HeadBound(k) ELSE n
      [] n.tag = "Extern" -> HeadExtern(n.name, close_value(n.ty, k, name))
      [] n.tag = "If" ->
            NeutralIf(close_neutral(n.cond, k, name), close_value(n.if_true, k, name),
                      close_value(n.if_false, k, name))
      [] n.tag = "Proj" -> NeutralProj(close_neutral(n.expr, k, name), n.label)
      [] n.tag = "Case" ->
            NeutralCase(close_neutral(n.head, k, name),
                        [i \in DOMAIN n.clauses |->
                            <<n.clauses[i][1],
                              close_value(n.clauses[i][2], k + 1, name)>>])
      [] OTHER -> n
close_value(v, k, name) ==
    CASE v.tag = "IntType" -> IntType(close_opt(v.min, k, name), close_opt(v.max, k, name))
      [] v.tag = "Pi" ->
            Pi(close_value(v.ann, k, name), close_value(v.body, k + 1, name))
      [] v.tag = "Lam" ->
            Lam(close_value(v.ann, k, name), close_value(v.body, k + 1, name))
      [] v.tag = "RecordType" ->
            RecordType(v.label, close_value(v.ann, k, name),
                       close_value(v.body, k + 1, name))
      [] v.tag = "Record" ->
            Record(v.label, close_value(v.value, k, name),
                   close_value(v.body, k + 1, name))
      [] v.tag = "Array" ->
            Array([i \in DOMAIN v.elems |-> close_value(v.elems[i], k, name)])
      [] v.tag = "Neutral" ->
            Neutral(close_neutral(v.head, k, name),
                    [i \in DOMAIN v.spine |-> close_value(v.spine[i], k, name)])
      [] OTHER -> v

\* Term::from(&Value): the term a value reads back as.
RECURSIVE term_of_value(_), term_of_neutral(_), apply_spine(_, _, _)
term_of_opt(x) == IF x = None THEN None ELSE Some(term_of_value(x[1]))
term_of_neutral(n) ==
    CASE n.tag = "Var" -> TermVar(Free(n.name))
      [] n.tag = "Bound" -> TermVar(Bound(n.index))
      [] n.tag = "Global" -> TermGlobal(n.name)
      [] n.tag = "Extern" -> TermExtern(n.name, term_of_value(n.ty))
      [] n.tag = "If" ->
            TermIf(term_of_neutral(n.cond), term_of_value(n.if_true),
                   term_of_value(n.if_false))
      [] n.tag = "Proj" -> TermProj(term_of_neutral(n.expr), n.label)
      [] n.tag = "Case" ->
            TermCase(term_of_neutral(n.head),
                     [i \in DOMAIN n.clauses |->
                         <<n.clauses[i][1], term_of_value(n.clauses[i][2])>>])
apply_spine(head, spine, k) ==
    IF k = 0 THEN head
    ELSE TermApp(apply_spine(head, spine, k - 1), term_of_value(spine[k]))
term_of_value(v) ==
    CASE v.tag = "Universe" -> TermUniverse(v.level)
      [] v.tag = "IntType" -> TermIntType(term_of_opt(v.min), term_of_opt(v.max))
      [] v.tag = "Literal" -> TermLiteral(v.literal)
      [] v.tag = "Pi" -> TermPi(term_of_value(v.ann), term_of_value(v.body))
      [] v.tag = "Lam" -> TermLam(term_of_value(v.ann), term_of_value(v.body))
      [] v.tag = "RecordType" ->
            TermRecordType(v.label, term_of_value(v.ann), term_of_value(v.body))
      [] v.tag = "RecordTypeEmpty" -> TermRecordTypeEmpty
      [] v.tag = "Record" ->
            TermRecord(v.label, term_of_value(v.value), term_of_value(v.body))
      [] v.tag = "RecordEmpty" -> TermRecordEmpty
      [] v.tag = "Array" ->
            TermArray([i \in DOMAIN v.elems |-> term_of_value(v.elems[i])])
      [] v.tag = "Neutral" ->
            apply_spine(term_of_neutral(v.head), v.spine, Len(v.spine))

\* Value::lookup_record: the value of the field `label` of a record value.
RECURSIVE lookup_record(_, _)
lookup_record(v, label) ==
    IF v.tag # "Record" THEN None
    ELSE IF v.label = label THEN Some(v.value)
    ELSE lookup_record(v.body, label)

\* match_value: the values the binders of the pattern stand for, if the
\* pattern matches.
match_value(pattern, value) ==
    IF pattern.tag = "Literal"
    THEN IF value.tag = "Literal" /\ pattern.literal.tag = value.literal.tag
                                  /\ pattern.literal = value.literal
         THEN Some(<<>>)
         ELSE None
    ELSE IF pattern.tag = "Binder" THEN Some(<<value>>)
    ELSE None

\* The first error of a sequence of results, in order.
first_error(rs) ==
    rs[CHOOSE i \in DOMAIN rs : ~rs[i].ok /\ \A j \in 1..(i - 1) : rs[j].ok]
all_ok(rs) == \A i \in DOMAIN rs : rs[i].ok

RECURSIVE normalize(_, _, _), first_applicable(_, _, _, _, _)

\* The operators below take the results of the recursive calls of normalize
\* as parameters (each Ok(value) or Err(error)) and give the result after
\* them; definitions is tc_env.definitions, d the number of scopes that
\* have been unbound around the term.
some_value(r) == IF r.ok THEN Ok(Some(r.value)) ELSE r

normalize_opt(definitions, x, d) ==
    IF x = None THEN Ok(None) ELSE some_value(normalize(definitions, x[1], d))

int_type_value(min, max) ==
    IF ~min.ok THEN min
    ELSE IF ~max.ok THEN max
    ELSE Ok(IntType(min.value, max.value))

extern_value(name, ty) ==
    IF ~ty.ok THEN ty ELSE Ok(Neutral(HeadExtern(name, ty.value), <<>>))

\* Scope::new((name, Embed(ann)), body) for Pi and Lam.
scope_value(tag, param, body, d) ==
    IF ~param.ok THEN param
    ELSE IF ~body.ok THEN body
    ELSE Ok([tag |-> tag, ann |-> param.value,
             body |-> close_value(body.value, 0, fresh(d))])

\* Scope::new((label, binder, Embed(x)), body) for RecordType and Record.
record_type_value(label, param, body, d) ==
    IF ~param.ok THEN param
    ELSE IF ~body.ok THEN body
    ELSE Ok(RecordType(label, param.value, close_value(body.value, 0, fresh(d))))

record_value(label, value, body, d) ==
    IF ~value.ok THEN value
    ELSE IF ~body.ok THEN body
    ELSE Ok(Record(label, value.value, close_value(body.value, 0, fresh(d))))

\* The body of a scope under the fresh name of depth d.
unbind(body, d) == open_term(body, 0, TermVar(Free(fresh(d))))

\* tc_env.primitives, PrimEnv::default(): the arity of each primitive.
primitives == [name \in {"bool-not", "bool-eq"} |->
                  [arity |-> IF name = "bool-not" THEN 1 ELSE 2]]

\* The interpretation of a primitive on a spine of its arity: Ok(value), or
\* the panic of `Err(()) => unimplemented!("proper error")` when the
\* interpretation gives a reduction failure (an argument is no Bool).
PrimPanic == Err("panic: not yet implemented: proper error")

is_bool(v) == v.tag = "Literal" /\ v.literal.tag = "Bool"

interpretation(name, spine) ==
    IF \E i \in DOMAIN spine : ~is_bool(spine[i]) THEN PrimPanic
    ELSE IF name = "bool-not" THEN Ok(Literal(LiteralBool(~spine[1].literal.value)))
    ELSE Ok(Literal(LiteralBool(spine[1].literal.value = spine[2].literal.value)))

\* Value::is_nf: no neutral term occurs in the value.
RECURSIVE is_nf(_)
is_nf(v) ==
    CASE v.tag = "Neutral" -> FALSE
      [] v.tag = "IntType" ->
            /\ (v.min # None => is_nf(v.min[1]))
            /\ (v.max # None => is_nf(v.max[1]))
      [] v.tag \in {"Pi", "Lam", "RecordType"} -> is_nf(v.ann) /\ is_nf(v.body)
      [] v.tag = "Record" -> is_nf(v.value) /\ is_nf(v.body)
      [] v.tag = "Array" -> \A i \in DOMAIN v.elems : is_nf(v.elems[i])
      [] OTHER -> TRUE

\* Mutant of prim_applies: the arguments need not be normal forms.
prim_applies_to_any(name, spine) ==
    /\ name \in DOMAIN primitives
    /\ primitives[name].arity = Len(spine)

\* The primitive `name` is applied to the spine: it is a primitive, the
\* spine has its arity and every argument is a normal form.
prim_applies(name, spine) ==
    /\ name \in DOMAIN primitives
    /\ primitives[name].arity = Len(spine)
    /\ \A i \in DOMAIN spine : is_nf(spine[i])

\* Mutant of push_arg: the argument is put in front of the spine.
push_arg_in_front(head, arg) ==
    IF ~arg.ok THEN arg
    ELSE Ok(Neutral(head.head, <<arg.value>> \o head.spine))

\* E-APP on a neutral head: the spine grows by the argument, and an extern
\* head that is a primitive is interpreted on it when it applies.
push_arg(head, arg) ==
    IF ~arg.ok THEN arg
    ELSE IF /\ head.head.tag = "Extern"
            /\ prim_applies(head.head.name, Append(head.spine, arg.value))
    THEN interpretation(head.head.name, Append(head.spine, arg.value))
    ELSE Ok(Neutral(head.head, Append(head.spine, arg.value)))

\* E-APP after the head: a lambda is unbound and its variable substituted
\* by the argument term.
app_value(definitions, t, d, head) ==
    IF ~head.ok THEN head
    ELSE IF head.value.tag = "Lam"
    THEN normalize(definitions,
                   open_term(term_of_value(head.value.body), 0, t.arg), d)
    ELSE IF head.value.tag = "Neutral"
    THEN push_arg(head.value, normalize(definitions, t.arg, d))
    ELSE Err("ArgumentAppliedToNonFunction")

is_bool_literal(v, b) ==
    v.tag = "Literal" /\ v.literal.tag = "Bool" /\ v.literal.value = b

neutral_if(cond, if_true, if_false) ==
    IF ~if_true.ok THEN if_true
    ELSE IF ~if_false.ok THEN if_false
    ELSE Ok(Neutral(NeutralIf(cond.head, if_true.value, if_false.value), cond.spine))

\* E-IF after the condition.
if_value(definitions, t, d, cond) ==
    IF ~cond.ok THEN cond
    ELSE IF is_bool_literal(cond.value, TRUE)
    THEN normalize(definitions, t.if_true, d)
    ELSE IF is_bool_literal(cond.value, FALSE)
    THEN normalize(definitions, t.if_false, d)
    ELSE IF cond.value.tag = "Neutral"
    THEN neutral_if(cond.value, normalize(definitions, t.if_true, d),
                    normalize(definitions, t.if_false, d))
    ELSE Err("ExpectedBoolExpr")

\* E-PROJ after the record.
proj_value(expr, label) ==
    IF ~expr.ok THEN expr
    ELSE IF expr.value.tag = "Neutral"
    THEN Ok(Neutral(NeutralProj(expr.value.head, label), expr.value.spine))
    ELSE IF lookup_record(expr.value, label) # None
    THEN Ok(lookup_record(expr.value, label)[1])
    ELSE Err("ProjectedOnNonExistentField")

\* E-CASE on a neutral head, after the bodies of the clauses.
neutral_case(head, clauses, bodies, d) ==
    IF ~all_ok(bodies) THEN first_error(bodies)
    ELSE Ok(Neutral(
            NeutralCase(head.head,
                        [i \in DOMAIN clauses |->
                            <<clauses[i][1],
                              close_value(bodies[i].value, 0, fresh(d))>>]),
            head.spine))

\* The body of a clause with the values of match_value substituted.
substs(body, mappings) ==
    IF mappings = <<>> THEN body
    ELSE open_term(body, 0, term_of_value(mappings[1]))

\* Mutant of first_applicable: the last clause that matches is taken.
last_applicable(definitions, clauses, head, d, k) ==
    IF \A i \in k..Len(clauses) : match_value(clauses[i][1], head) = None
    THEN Err("NoPatternsApplicable")
    ELSE normalize(definitions,
                   substs(clauses[CHOOSE i \in k..Len(clauses) :
                                      /\ match_value(clauses[i][1], head) # None
                                      /\ \A j \in (i + 1)..Len(clauses) :
                                             match_value(clauses[j][1], head) = None][2],
                          <<head>>), d)

\* E-CASE on a value: the first clause from the k-th on that matches.
first_applicable(definitions, clauses, head, d, k) ==
    IF k > Len(clauses) THEN Err("NoPatternsApplicable")
    ELSE IF match_value(clauses[k][1], head) # None
    THEN normalize(definitions,
                   substs(clauses[k][2], match_value(clauses[k][1], head)[1]), d)
    ELSE first_applicable(definitions, clauses, head, d, k + 1)

\* E-CASE after the head.
case_value(definitions, t, d, head) ==
    IF ~head.ok THEN head
    ELSE IF head.value.tag = "Neutral"
    THEN neutral_case(head.value, t.clauses,
                      [i \in DOMAIN t.clauses |->
                          normalize(definitions, unbind(t.clauses[i][2], d), d + 1)],
                      d)
    ELSE first_applicable(definitions, t.clauses, head.value, d, 1)

array_value(elems) ==
    IF ~all_ok(elems) THEN first_error(elems)
    ELSE Ok(Array([i \in DOMAIN elems |-> elems[i].value]))

normalize(definitions, t, d) ==
    CASE t.tag = "Ann" -> normalize(definitions, t.expr, d)
      [] t.tag = "Universe" -> Ok(Universe(t.level))
      [] t.tag = "IntType" ->
            int_type_value(normalize_opt(definitions, t.min, d),
                           normalize_opt(definitions, t.max, d))
      [] t.tag = "Literal" -> Ok(Literal(t.literal))
      [] t.tag = "Var" ->
            IF t.var.tag = "Bound" THEN Err("UnsubstitutedDebruijnIndex")
            ELSE IF t.var.name \in DOMAIN definitions
            THEN normalize(definitions, definitions[t.var.name], d)
            ELSE Ok(var(t.var.name))
      [] t.tag = "Extern" -> extern_value(t.name, normalize(definitions, t.ty, d))
      [] t.tag = "Global" -> Ok(normalize_global(t.name))
      [] t.tag \in {"Pi", "Lam"} ->
            scope_value(t.tag, normalize(definitions, t.ann, d),
                        normalize(definitions, unbind(t.body, d), d + 1), d)
      [] t.tag = "App" -> app_value(definitions, t, d, normalize(definitions, t.head, d))
      [] t.tag = "If" -> if_value(definitions, t, d, normalize(definitions, t.cond, d))
      [] t.tag = "RecordType" ->
            record_type_value(t.label, normalize(definitions, t.ann, d),
                              normalize(definitions, unbind(t.body, d), d + 1), d)
      [] t.tag = "RecordTypeEmpty" -> Ok(RecordTypeEmpty)
      [] t.tag = "Record" ->
            record_value(t.label, normalize(definitions, t.term, d),
                         normalize(definitions, unbind(t.body, d), d + 1), d)
      [] t.tag = "RecordEmpty" -> Ok(RecordEmpty)
      [] t.tag = "Proj" -> proj_value(normalize(definitions, t.expr, d), t.label)
      [] t.tag = "Case" -> case_value(definitions, t, d, normalize(definitions, t.head, d))
      [] t.tag = "Array" ->
            array_value([i \in DOMAIN t.elems |-> normalize(definitions, t.elems[i], d)])

\* The surface elaborator has not been entered.
NoElaboration ==
    /\ surface_items = <<>>
    /\ idx = 0
    /\ items = EmptyMap
    /\ core_items = <<>>
    /\ diags = <<>>
    /\ aborted = FALSE
    /\ NoFields

(***************************************************************************)
(* check_literal on its own: a raw literal is checked against the normal   *)
(* form of a global, as check_module does for `name : ann = literal`.      *)
(***************************************************************************)
MaxSlack == 1

MachineInts == {u8, u16, u32, u64, i8, i16, i32, i64}

\* The integers at most k away from b.
RECURSIVE Near(_, _)
Near(b, k) ==
    IF k = 0 THEN {b}
    ELSE LET S == Near(b, k - 1)
         IN  S \cup {BigSucc(x) : x \in S} \cup {BigPred(x) : x \in S}

IntLiterals ==
    UNION {Near(min_value(T), MaxSlack) \cup Near(max_value(T), MaxSlack) :
              T \in MachineInts}

RawLiterals ==
    {RawInt(v) : v \in IntLiterals}
    \cup {RawFloat("1.5"), RawString("s"), RawChar("c")}

InitLiteral ==
    /\ raw_literal \in RawLiterals
    /\ ann \in DOMAIN globals
    /\ checked = None
    /\ ty1 = None
    /\ ty2 = None
    /\ ty3 = None
    /\ subtypes = None
    /\ NoNormalization
    /\ NoElaboration

\* check_term on a literal: normalize the annotation, check the literal.
CheckLiteral ==
    /\ checked = None
    /\ checked' = Some(check_literal(raw_literal, normalize_global(ann)))
    /\ UNCHANGED <<raw_literal, ann, ty1, ty2, ty3, subtypes>>
    /\ UNCHANGED <<elab_vars, norm_vars, infer_vars>>

NextLiteral == CheckLiteral

SpecLiteral == InitLiteral /\ [][NextLiteral]_vars

(***************************************************************************)
(* is_subtype on its own, on three interval types whose bounds are absent, *)
(* integer literals, a neutral variable or a literal that is no integer.   *)
(***************************************************************************)
MaxBound == 1

BoundValues ==
    {Literal(LiteralInt(BigFrom(n))) : n \in (-MaxBound)..MaxBound}
    \cup {var("x"), Literal(LiteralBool(TRUE))}

Bounds == {None} \cup {Some(v) : v \in BoundValues}

IntervalTypes == {IntType(lo, hi) : lo \in Bounds, hi \in Bounds}

InitSubtype ==
    /\ ty1 \in IntervalTypes
    /\ ty2 \in IntervalTypes
    /\ ty3 \in IntervalTypes
    /\ subtypes = None
    /\ raw_literal = None
    /\ ann = None
    /\ checked = None
    /\ NoNormalization
    /\ NoElaboration

Subtype ==
    /\ subtypes = None
    /\ subtypes' = Some([t11 |-> is_subtype(ty1, ty1),
                         t12 |-> is_subtype(ty1, ty2),
                         t23 |-> is_subtype(ty2, ty3),
                         t13 |-> is_subtype(ty1, ty3)])
    /\ UNCHANGED <<ty1, ty2, ty3, raw_literal, ann, checked>>
    /\ UNCHANGED <<elab_vars, norm_vars, infer_vars>>

NextSubtype == Subtype

SpecSubtype == InitSubtype /\ [][NextSubtype]_vars

(***************************************************************************)
(* is_subtype on the named globals: a global against an interval type      *)
(* whose bounds lie at the limits of the machine integers, or against      *)
(* another global, in both directions (ty3 is ty1 again).                  *)
(***************************************************************************)
GlobalTypes == {global(name) : name \in UndefinedGlobals}

LimitBounds ==
    {None} \cup {Some(Literal(LiteralInt(v))) : v \in IntLiterals}

LimitTypes == {IntType(lo, hi) : lo \in LimitBounds, hi \in LimitBounds}

InitGlobals ==
    /\ ty1 \in GlobalTypes
    /\ ty2 \in LimitTypes \cup GlobalTypes
    /\ ty3 = ty1
    /\ subtypes = None
    /\ raw_literal = None
    /\ ann = None
    /\ checked = None
    /\ NoNormalization
    /\ NoElaboration

NextGlobals == Subtype

SpecGlobals == InitGlobals /\ [][NextGlobals]_vars

(***************************************************************************)
(* normalize on its own: a term is normalized under an environment, and    *)
(* the term its normal form reads back as is normalized again.             *)
(***************************************************************************)
MaxArgs == 2

\* tc_env.definitions after check_module has gone through the definitions
\* t = true, id = \a : Type. a and k = \a : Type. \b : Type. a.
Definitions ==
    [name \in {"t", "id", "k"} |->
        CASE name = "t" -> TermLiteral(LiteralBool(TRUE))
          [] name = "id" -> TermLam(TermUniverse(0), TermVar(Bound(0)))
          [] name = "k" ->
                TermLam(TermUniverse(0), TermLam(TermUniverse(0), TermVar(Bound(1))))]

TcEnvs == {[definitions |-> EmptyMap], [definitions |-> Definitions]}

NormAtoms ==
    {TermVar(Free("x")), TermVar(Free("t")), TermVar(Free("id")), TermVar(Free("k")),
     TermLiteral(LiteralBool(FALSE)), TermLiteral(LiteralInt(BigFrom(1))),
     TermGlobal("U8"), TermGlobal("true"), TermGlobal("F32"), TermUniverse(0),
     TermRecordEmpty, TermRecordTypeEmpty, TermVar(Bound(0))}

NormArgs == {TermVar(Free("x")), TermVar(Free("t")), TermGlobal("true"),
             TermLiteral(LiteralInt(BigFrom(1)))}

\* Bodies of scopes: Bound(0) is the variable of the scope.
ScopeBodies ==
    {TermVar(Bound(0)), TermVar(Free("x")), TermVar(Free("t")),
     TermApp(TermVar(Bound(0)), TermVar(Free("x"))),
     TermApp(TermVar(Free("x")), TermVar(Bound(0))),
     TermApp(TermVar(Free("id")), TermVar(Bound(0))),
     TermIf(TermVar(Bound(0)), TermVar(Free("t")), TermVar(Free("x"))),
     TermLam(TermUniverse(0), TermApp(TermVar(Bound(1)), TermVar(Bound(0)))),
     TermPi(TermVar(Bound(0)), TermVar(Bound(1)))}

ClauseLists ==
    {<<>>,
     <<<<PatternLiteral(LiteralBool(TRUE)), TermVar(Free("x"))>>,
       <<PatternBinder, TermVar(Bound(0))>>>>,
     <<<<PatternLiteral(LiteralInt(BigFrom(1))), TermVar(Free("t"))>>,
       <<PatternLiteral(LiteralBool(FALSE)),
         TermApp(TermVar(Free("id")), TermVar(Free("x")))>>>>,
     <<<<PatternBinder, TermIf(TermVar(Bound(0)), TermVar(Free("x")),
                                TermGlobal("U8"))>>>>,
     <<<<PatternBinder, TermVar(Free("x"))>>,
       <<PatternLiteral(LiteralBool(TRUE)), TermVar(Free("t"))>>,
       <<PatternBinder, TermVar(Bound(0))>>>>,
     <<<<PatternAnn(PatternBinder, TermGlobal("Bool")), TermVar(Bound(0))>>>>,
     <<<<PatternLiteral(LiteralBool(FALSE)), TermVar(Free("x"))>>,
       <<PatternAnn(PatternBinder, TermGlobal("Bool")), TermVar(Free("t"))>>>>}

Conditions ==
    {TermVar(Free("x")), TermVar(Free("t")), TermGlobal("false"),
     TermLiteral(LiteralInt(BigFrom(1))),
     TermExtern("bool-not", TermGlobal("Bool")),
     TermApp(TermVar(Free("x")), TermVar(Free("t")))}

NormHeads ==
    NormAtoms
    \cup {TermLam(TermUniverse(0), b) : b \in ScopeBodies}
    \cup {TermPi(TermGlobal("U8"), b) : b \in ScopeBodies}
    \cup {TermIf(c, a, b) : c \in Conditions, a \in NormArgs, b \in NormArgs}
    \cup {TermAnn(a, TermUniverse(0)) : a \in NormArgs}
    \cup {TermIntType(lo, hi) :
             lo \in {None, Some(TermVar(Free("t"))), Some(TermGlobal("U8"))},
             hi \in {None, Some(TermLiteral(LiteralInt(BigFrom(1)))),
                     Some(TermVar(Bound(0)))}}
    \cup {TermExtern("ext", ty) : ty \in {TermGlobal("U8"), TermVar(Free("t"))}}
    \cup {TermExtern(name, TermGlobal("Bool")) : name \in DOMAIN primitives}
    \cup {TermRecord("l", a, b) :
             a \in NormArgs, b \in {TermRecordEmpty,
                                    TermRecord("m", TermVar(Free("x")), TermRecordEmpty)}}
    \cup {TermRecordType("l", TermGlobal("U8"), b) :
             b \in {TermRecordTypeEmpty, TermVar(Bound(0))}}
    \cup {TermCase(a, cs) : a \in NormArgs \cup {TermGlobal("false")}, cs \in ClauseLists}
    \cup {TermArray(es) : es \in SeqsUpTo(NormArgs, 2)}

\* A head applied to n arguments.
RECURSIVE Applied(_, _)
Applied(hs, n) ==
    IF n = 0 THEN hs
    ELSE {TermApp(h, a) : h \in Applied(hs, n - 1), a \in NormArgs}

NormTerms ==
    UNION {Applied(NormHeads, n) : n \in 0..MaxArgs}
    \cup {TermProj(h, l) : h \in NormHeads, l \in {"l", "m"}}
    \cup {TermIf(h, TermVar(Free("x")), TermGlobal("U8")) : h \in NormHeads}
    \cup {TermCase(h, cs) : h \in NormHeads, cs \in ClauseLists}
    \cup {TermLam(TermUniverse(0), h) : h \in NormHeads}
    \cup {TermApp(TermVar(Free("k")), h) : h \in NormHeads}
    \cup {TermProj(c, "l") : c \in Conditions}
    \cup {TermCase(c, cs) : c \in Conditions, cs \in ClauseLists}

InitNormalize ==
    /\ tc_env \in TcEnvs
    /\ norm_term \in NormTerms
    /\ nf = None
    /\ nf_again = None
    /\ raw_term = None
    /\ infer_result = None
    /\ NoModule
    /\ raw_literal = None
    /\ ann = None
    /\ checked = None
    /\ ty1 = None
    /\ ty2 = None
    /\ ty3 = None
    /\ subtypes = None
    /\ NoElaboration

\* normalize(tc_env, term).
Normalize ==
    /\ nf = None
    /\ nf' = Some(normalize(tc_env.definitions, norm_term, 0))
    /\ UNCHANGED <<tc_env, norm_term, nf_again>>
    /\ UNCHANGED <<elab_vars, sem_vars, infer_vars>>

\* normalize(tc_env, Term::from(value)) on the value of a normalization
\* that has succeeded.
NormalizeAgain ==
    /\ nf # None
    /\ nf[1].ok
    /\ nf_again = None
    /\ nf_again' = Some(normalize(tc_env.definitions, term_of_value(nf[1].value), 0))
    /\ UNCHANGED <<tc_env, norm_term, nf>>
    /\ UNCHANGED <<elab_vars, sem_vars, infer_vars>>

NextNormalize == Normalize \/ NormalizeAgain

SpecNormalize == InitNormalize /\ [][NextNormalize]_vars

(***************************************************************************)
(* infer_term and check_term of the core semantics, on raw literals,       *)
(* variables, globals, annotations and if-expressions.  A result is Ok of  *)
(* the elaborated term (check_term) or of [term, ty] (infer_term), or Err  *)
(* of the error's name; `?` returns the first error.                       *)
(***************************************************************************)
RawTermLiteral(lit) == [tag |-> "Literal", literal |-> lit]
RawTermVar(name) == [tag |-> "Var", name |-> name]
RawTermGlobal(name) == [tag |-> "Global", name |-> name]
RawTermAnn(expr, ty) == [tag |-> "Ann", expr |-> expr, ty |-> ty]
RawTermIf(cond, if_true, if_false) ==
    [tag |-> "If", cond |-> cond, if_true |-> if_true, if_false |-> if_false]

\* A binder of the raw syntax is the free variable `name` that unbind gives
\* for it; the body refers to it by that name.
RawTermPi(name, param, body) ==
    [tag |-> "Pi", name |-> name, ann |-> param, body |-> body]
RawTermLam(name, param, body) ==
    [tag |-> "Lam", name |-> name, ann |-> param, body |-> body]
RawTermRecordType(label, name, param, body) ==
    [tag |-> "RecordType", label |-> label, name |-> name, ann |-> param,
     body |-> body]
RawTermRecordTypeEmpty == [tag |-> "RecordTypeEmpty"]
RawTermHole == [tag |-> "Hole"]
RawTermCase(head, clauses) == [tag |-> "Case", head |-> head, clauses |-> clauses]
RawPatternBinder(name) == [tag |-> "Binder", name |-> name]
RawPatternLiteral(lit) == [tag |-> "Literal", literal |-> lit]
RawPatternAnn(pattern, ty) == [tag |-> "Ann", pattern |-> pattern, ty |-> ty]

\* Scope::new on a term: the free variable `name` becomes the variable
\* bound k scopes up.
RECURSIVE close_term(_, _, _)
close_term(t, k, name) ==
    CASE t.tag = "Var" ->
            IF t.var.tag = "Free" /\ t.var.name = name THEN TermVar(Bound(k)) ELSE t
      [] t.tag = "Ann" -> TermAnn(close_term(t.expr, k, name), close_term(t.ty, k, name))
      [] t.tag = "Pi" ->
            TermPi(close_term(t.ann, k, name), close_term(t.body, k + 1, name))
      [] t.tag = "Lam" ->
            TermLam(close_term(t.ann, k, name), close_term(t.body, k + 1, name))
      [] t.tag = "RecordType" ->
            TermRecordType(t.label, close_term(t.ann, k, name),
                           close_term(t.body, k + 1, name))
      [] t.tag = "If" ->
            TermIf(close_term(t.cond, k, name), close_term(t.if_true, k, name),
                   close_term(t.if_false, k, name))
      [] t.tag = "Case" ->
            TermCase(close_term(t.head, k, name),
                     [i \in DOMAIN t.clauses |->
                         <<t.clauses[i][1], close_term(t.clauses[i][2], k + 1, name)>>])
      [] OTHER -> t

RECURSIVE infer_term(_, _), semantics_check_term(_, _, _)
RECURSIVE check_pattern(_, _, _), infer_pattern(_, _), infer_clauses(_, _, _, _, _)
RECURSIVE check_against_inferred(_, _, _), check_against_value(_, _, _)

\* The operators below take the results of the calls a function makes as
\* parameters and give the function's result after those calls.

\* infer_universe after infer_term.
infer_universe(r) ==
    IF ~r.ok THEN r
    ELSE IF r.value.ty.tag = "Universe"
    THEN Ok([term |-> r.value.term, level |-> r.value.ty.level])
    ELSE Err("ExpectedUniverse")

\* check_term on a literal.
c_literal(r) == IF r.ok THEN Ok(TermLiteral(r.value)) ELSE r

\* C-IF after its three calls of check_term.
c_if(cond, if_true, if_false) ==
    IF ~cond.ok THEN cond
    ELSE IF ~if_true.ok THEN if_true
    ELSE IF ~if_false.ok THEN if_false
    ELSE Ok(TermIf(cond.value, if_true.value, if_false.value))

\* Mutant of c_conv: the inferred type must be the expected type.
c_conv_by_equality(r, expected_ty) ==
    IF ~r.ok THEN r
    ELSE IF term_eq(r.value.ty, expected_ty) THEN Ok(r.value.term)
    ELSE Err("Mismatch")

\* C-CONV after infer_term.
c_conv(r, expected_ty) ==
    IF ~r.ok THEN r
    ELSE IF is_subtype(r.value.ty, expected_ty) THEN Ok(r.value.term)
    ELSE Err("Mismatch")

semantics_check_term(env, raw, expected_ty) ==
    CASE raw.tag = "Literal" -> c_literal(check_literal(raw.literal, expected_ty))
      [] raw.tag = "If" ->
            c_if(semantics_check_term(env, raw.cond, bool_ty),
                 semantics_check_term(env, raw.if_true, expected_ty),
                 semantics_check_term(env, raw.if_false, expected_ty))
      [] OTHER -> c_conv(infer_term(env, raw), expected_ty)

\* check_term against the type r has inferred.
check_against_inferred(env, raw, r) ==
    IF r.ok THEN semantics_check_term(env, raw, r.value.ty) ELSE r

\* The checked term with the type it has been checked against.
with_ty(r, ty) == IF r.ok THEN Ok([term |-> r.value, ty |-> ty]) ELSE r

\* check_term against the value v of an annotation.
check_against_value(env, raw, v) ==
    IF v.ok THEN with_ty(semantics_check_term(env, raw, v.value), v.value) ELSE v

\* I-ANN after infer_universe (u) and, with e, after normalize and
\* check_term.
i_ann(u, e) ==
    IF ~e.ok THEN e
    ELSE Ok([term |-> TermAnn(e.value.term, u.value.term), ty |-> e.value.ty])

infer_literal_term(r) ==
    IF r.ok THEN Ok([term |-> TermLiteral(r.value.literal), ty |-> r.value.ty]) ELSE r

\* Mutant of i_var: a variable with no claim is taken to be a type.
i_var_unclaimed(env, name) ==
    Ok([term |-> TermVar(Free(name)),
        ty |-> IF name \in DOMAIN env.claims THEN env.claims[name] ELSE Universe(0)])

\* I-VAR on a free variable.
i_var(env, name) ==
    IF name \in DOMAIN env.claims
    THEN Ok([term |-> TermVar(Free(name)), ty |-> env.claims[name]])
    ELSE Err("UndefinedFreeVar")

\* infer_term on a global.
infer_global(name) ==
    IF name \in DOMAIN globals
    THEN Ok([term |-> TermGlobal(name), ty |-> globals[name].ty])
    ELSE Err("UndefinedName")

\* I-IF after check_term on the condition, infer_term on the first branch
\* and check_term on the second.
i_if(cond, if_true, if_false) ==
    IF ~cond.ok THEN cond
    ELSE IF ~if_true.ok THEN if_true
    ELSE IF ~if_false.ok THEN if_false
    ELSE Ok([term |-> TermIf(cond.value, if_true.value.term, if_false.value),
             ty |-> if_true.value.ty])

\* body_tc_env = tc_env.clone(); body_tc_env.claims.insert(free_var, ty).
body_tc_env(env, name, ty) == [env EXCEPT !.claims = (name :> ty) @@ env.claims]

\* body_tc_env = tc_env.clone(); body_tc_env.claims.extend(claims).
clause_tc_env(env, claims) ==
    IF claims = <<>> THEN env ELSE body_tc_env(env, claims[1][1], claims[1][2])

\* Mutant of after_clause: the claims of a clause stay in the environment of
\* the clauses after it.
after_clause_keeps_claims(env, clause_env) == clause_env

\* The environment of the next clause: body_tc_env is local to the block
\* that checks the body, the closure goes on with tc_env.
after_clause(env, clause_env) == env

level_max(l1, l2) == IF l1 > l2 THEN l1 ELSE l2

\* I-PI and I-RECORD-TYPE after infer_universe on the annotation (u) and on
\* the body (b).
i_pi(raw, u, b) ==
    IF ~b.ok THEN b
    ELSE Ok([term |-> IF raw.tag = "Pi"
                      THEN TermPi(u.value.term, close_term(b.value.term, 0, raw.name))
                      ELSE TermRecordType(raw.label, u.value.term,
                                          close_term(b.value.term, 0, raw.name)),
             ty |-> Universe(level_max(u.value.level, b.value.level))])

\* I-LAM after infer_universe on the annotation (u), normalize (v) and
\* infer_term on the body (b).
i_lam(raw, u, v, b) ==
    IF ~b.ok THEN b
    ELSE Ok([term |-> TermLam(u.value.term, close_term(b.value.term, 0, raw.name)),
             ty |-> Pi(v.value, close_value(b.value.ty, 0, raw.name))])

\* check_pattern on a literal, after check_literal.
check_literal_pattern(r) ==
    IF r.ok THEN Ok([pattern |-> PatternLiteral(r.value), claims |-> <<>>]) ELSE r

\* check_pattern on other patterns, after infer_pattern.
check_inferred_pattern(r, expected_ty) ==
    IF ~r.ok THEN r
    ELSE IF term_eq(r.value.ty, expected_ty)
    THEN Ok([pattern |-> r.value.pattern, claims |-> r.value.claims])
    ELSE Err("Mismatch")

check_pattern(env, raw_pattern, expected_ty) ==
    CASE raw_pattern.tag = "Binder" ->
            Ok([pattern |-> PatternBinder,
                claims |-> <<<<raw_pattern.name, expected_ty>>>>])
      [] raw_pattern.tag = "Literal" ->
            check_literal_pattern(check_literal(raw_pattern.literal, expected_ty))
      [] OTHER -> check_inferred_pattern(infer_pattern(env, raw_pattern), expected_ty)

\* infer_pattern on an annotated pattern, after infer_universe (u),
\* normalize (v) and check_pattern (p).
infer_ann_pattern(u, v, p) ==
    IF ~p.ok THEN p
    ELSE Ok([pattern |-> PatternAnn(p.value.pattern, u.value.term),
             ty |-> v.value, claims |-> p.value.claims])

infer_literal_pattern(r) ==
    IF r.ok
    THEN Ok([pattern |-> PatternLiteral(r.value.literal), ty |-> r.value.ty,
             claims |-> <<>>])
    ELSE r

infer_pattern(env, raw_pattern) ==
    CASE raw_pattern.tag = "Ann" ->
            CHOOSE r \in
                {IF ~u.ok THEN u
                 ELSE CHOOSE q \in
                          {IF ~v.ok THEN v
                           ELSE infer_ann_pattern(
                                    u, v, check_pattern(env, raw_pattern.pattern, v.value)) :
                              v \in {normalize(env.definitions, u.value.term, 0)}} : TRUE :
                    u \in {infer_universe(infer_term(env, raw_pattern.ty))}} : TRUE
      [] raw_pattern.tag = "Literal" ->
            infer_literal_pattern(infer_literal(raw_pattern.literal))
      [] raw_pattern.tag = "Binder" -> Err("BinderNeedsAnnotation")

\* Scope::new(pattern, body): the body closed over the binder of the pattern.
clause_scope(p, body) ==
    <<p.value.pattern,
      IF p.value.claims = <<>> THEN body
      ELSE close_term(body, 0, p.value.claims[1][1])>>

\* The clauses from the k-th on, once clause k has been elaborated.
with_clause(clause, rest) ==
    IF ~rest.ok THEN rest
    ELSE Ok([clauses |-> <<clause>> \o rest.value.clauses, ty |-> rest.value.ty])

\* I-CASE, the closure over the clauses from the k-th on: ty is the type
\* of the first body, once there is one.
infer_clauses(env, head_ty, clauses, k, ty) ==
    IF k > Len(clauses) THEN Ok([clauses |-> <<>>, ty |-> ty])
    ELSE CHOOSE r \in
             {IF ~p.ok THEN p
              ELSE CHOOSE q \in
                       {IF ~b.ok THEN b
                        ELSE IF ty # None /\ ~term_eq(b.value.ty, ty[1])
                        THEN Err("Mismatch")
                        ELSE with_clause(
                                 clause_scope(p, b.value.term),
                                 infer_clauses(
                                     after_clause(env, clause_tc_env(env, p.value.claims)),
                                     head_ty, clauses, k + 1,
                                     IF ty = None THEN Some(b.value.ty) ELSE ty)) :
                           b \in {infer_term(clause_tc_env(env, p.value.claims),
                                             clauses[k][2])}} : TRUE :
                 p \in {check_pattern(env, clauses[k][1], head_ty)}} : TRUE

\* I-CASE after infer_term on the head and the closure over the clauses.
i_case(head, cs) ==
    IF ~cs.ok THEN cs
    ELSE IF cs.value.ty = None THEN Err("AmbiguousEmptyCase")
    ELSE Ok([term |-> TermCase(head.value.term, cs.value.clauses),
             ty |-> cs.value.ty[1]])

infer_term(env, raw) ==
    CASE raw.tag = "Ann" ->
            CHOOSE r \in
                {IF ~u.ok THEN u
                 ELSE CHOOSE e \in
                          {i_ann(u, check_against_value(env, raw.expr, v)) :
                              v \in {normalize(env.definitions, u.value.term, 0)}} : TRUE :
                    u \in {infer_universe(infer_term(env, raw.ty))}} : TRUE
      [] raw.tag = "Literal" -> infer_literal_term(infer_literal(raw.literal))
      [] raw.tag = "Var" -> i_var(env, raw.name)
      [] raw.tag = "Global" -> infer_global(raw.name)
      [] raw.tag = "If" ->
            CHOOSE r \in
                {i_if(semantics_check_term(env, raw.cond, bool_ty), if_true,
                      check_against_inferred(env, raw.if_false, if_true)) :
                    if_true \in {infer_term(env, raw.if_true)}} : TRUE
      [] raw.tag \in {"Pi", "RecordType"} ->
            CHOOSE r \in
                {IF ~u.ok THEN u
                 ELSE CHOOSE q \in
                          {IF ~v.ok THEN v
                           ELSE i_pi(raw, u,
                                     infer_universe(
                                         infer_term(body_tc_env(env, raw.name, v.value),
                                                    raw.body))) :
                              v \in {normalize(env.definitions, u.value.term, 0)}} : TRUE :
                    u \in {infer_universe(infer_term(env, raw.ann))}} : TRUE
      [] raw.tag = "Lam" ->
            IF raw.ann.tag = "Hole" THEN Err("FunctionParamNeedsAnnotation")
            ELSE CHOOSE r \in
                {IF ~u.ok THEN u
                 ELSE CHOOSE q \in
                          {IF ~v.ok THEN v
                           ELSE i_lam(raw, u, v,
                                      infer_term(body_tc_env(env, raw.name, v.value),
                                                 raw.body)) :
                              v \in {normalize(env.definitions, u.value.term, 0)}} : TRUE :
                    u \in {infer_universe(infer_term(env, raw.ann))}} : TRUE
      [] raw.tag = "RecordTypeEmpty" ->
            Ok([term |-> TermRecordTypeEmpty, ty |-> Universe(0)])
      [] raw.tag = "Case" ->
            CHOOSE r \in
                {IF ~head.ok THEN head
                 ELSE i_case(head, infer_clauses(env, head.value.ty, raw.clauses, 1, None)) :
                    head \in {infer_term(env, raw.head)}} : TRUE

(***************************************************************************)
(* infer_term on if-expressions whose branches are literals, variables,    *)
(* globals, annotated terms or if-expressions, under an environment that   *)
(* claims x : U16 (normalized), b : Bool and e : U16Le.                    *)
(***************************************************************************)
InferClaims ==
    [name \in {"x", "b", "e"} |->
        CASE name = "x" -> normalize_global("U16")
          [] name = "b" -> bool_ty
          [] name = "e" -> global("U16Le")]

InferEnvs == {[definitions |-> EmptyMap, claims |-> InferClaims]}

RawInts == {RawTermLiteral(RawInt(BigFrom(5))), RawTermLiteral(RawInt(BigFrom(70000)))}

RawAtoms ==
    RawInts
    \cup {RawTermLiteral(RawFloat("1.5")), RawTermVar("x"), RawTermVar("b"),
          RawTermVar("e"), RawTermVar("z"), RawTermGlobal("true"), RawTermGlobal("U8")}

RawAnns ==
    {RawTermAnn(a, RawTermGlobal(g)) :
        a \in {RawTermLiteral(RawInt(BigFrom(5))), RawTermLiteral(RawFloat("1.5")),
               RawTermVar("x")},
        g \in {"U16", "F32", "true"}}

RawInnerIfs ==
    {RawTermIf(RawTermVar("b"), a, b) :
        a \in RawInts \cup {RawTermVar("x")}, b \in RawInts \cup {RawTermVar("x")}}

RawIfs ==
    {RawTermIf(c, a, b) :
        c \in {RawTermGlobal("true"), RawTermVar("b"), RawTermVar("x")},
        a \in RawAtoms \cup RawAnns, b \in RawAtoms \cup RawAnns}
    \cup {RawTermIf(RawTermGlobal("true"), a, b) :
              a \in RawInnerIfs \cup RawInts \cup {RawTermVar("x")},
              b \in RawInnerIfs \cup RawInts \cup {RawTermVar("x")}}

RawTerms == RawAtoms \cup RawAnns \cup RawIfs

InitInfer ==
    /\ tc_env \in InferEnvs
    /\ raw_term \in RawTerms
    /\ infer_result = None
    /\ NoModule
    /\ norm_term = None
    /\ nf = None
    /\ nf_again = None
    /\ raw_literal = None
    /\ ann = None
    /\ checked = None
    /\ ty1 = None
    /\ ty2 = None
    /\ ty3 = None
    /\ subtypes = None
    /\ NoElaboration

\* infer_term(tc_env, raw_term).
Infer ==
    /\ raw_term # None
    /\ infer_result = None
    /\ infer_result' = Some(infer_term(tc_env, raw_term))
    /\ UNCHANGED <<raw_term, tc_env, norm_term, nf, nf_again>>
    /\ UNCHANGED <<raw_module, def_idx, module_defs, module_error>>
    /\ UNCHANGED <<elab_vars, sem_vars>>

(***************************************************************************)
(* The synthesis of if-expressions by both implementations: infer_term of  *)
(* the core semantics on the raw terms above, and synth_term of the        *)
(* surface elaborator on the modules of SpecTerms.                         *)
(***************************************************************************)
InitIf == InitInfer \/ InitTerms

NextIf == Infer \/ ElaborateAlias \/ ElaborateStruct

SpecIf == InitIf /\ [][NextIf]_vars

(***************************************************************************)
(* infer_term on terms with binders (lambdas, pi types, record types and   *)
(* case clauses), under an environment that claims x : U16 (normalized)    *)
(* and b : Bool, followed by normalize on the elaborated term.  The        *)
(* binders are named y and z; the terms also refer to y and z outside the  *)
(* scope of a binder.                                                      *)
(***************************************************************************)
MaxClauses == 2

ScopeClaims ==
    [name \in {"x", "b"} |-> IF name = "x" THEN normalize_global("U16") ELSE bool_ty]

ScopeEnvs == {[definitions |-> EmptyMap, claims |-> ScopeClaims]}

ScopeVars == {RawTermVar(n) : n \in {"x", "y", "z"}}

ScopeTypes == {RawTermGlobal("Bool"), RawTermGlobal("U16"), RawTermVar("y")}

RawClauses ==
    {<<RawPatternBinder("y"), RawTermVar("y")>>,
     <<RawPatternBinder("y"), RawTermVar("x")>>,
     <<RawPatternBinder("z"), RawTermVar("y")>>,
     <<RawPatternBinder("z"), RawTermVar("z")>>,
     <<RawPatternLiteral(RawInt(BigFrom(5))), RawTermVar("x")>>,
     <<RawPatternLiteral(RawInt(BigFrom(5))), RawTermVar("y")>>,
     <<RawPatternAnn(RawPatternBinder("y"), RawTermGlobal("U16")), RawTermVar("y")>>,
     <<RawPatternAnn(RawPatternBinder("y"), RawTermGlobal("Bool")), RawTermVar("y")>>,
     <<RawPatternAnn(RawPatternBinder("y"), RawTermVar("z")), RawTermGlobal("true")>>}

RawCases ==
    {RawTermCase(h, cs) :
        h \in {RawTermVar("x"), RawTermVar("y"), RawTermGlobal("true")},
        cs \in SeqsUpTo(RawClauses, MaxClauses)}

InnerScopes ==
    {RawTermLam("z", RawTermGlobal("Bool"), v) : v \in ScopeVars}
    \cup {RawTermCase(RawTermVar("y"), <<<<RawPatternBinder("z"), v>>>>) : v \in ScopeVars}
    \cup {RawTermIf(RawTermVar("b"),
                    RawTermCase(RawTermVar("x"), <<<<RawPatternBinder("z"), RawTermVar("z")>>>>),
                    v) : v \in ScopeVars}

RawLams ==
    {RawTermLam(n, t, v) :
        n \in {"y", "z"}, t \in ScopeTypes \cup {RawTermHole},
        v \in ScopeVars \cup InnerScopes}

RawPis ==
    {RawTermPi("y", t, v) :
        t \in ScopeTypes,
        v \in ScopeVars \cup {RawTermGlobal("Bool"),
                               RawTermPi("z", RawTermGlobal("Bool"), RawTermVar("y"))}}
    \cup {RawTermRecordType("l", "y", t, v) :
              t \in ScopeTypes,
              v \in ScopeVars \cup {RawTermRecordTypeEmpty,
                                     RawTermRecordType("m", "z", RawTermGlobal("Bool"),
                                                       RawTermRecordTypeEmpty)}}

RawSiblings ==
    {RawTermIf(RawTermVar("b"), u, v) :
        u \in {RawTermCase(RawTermVar("x"), <<<<RawPatternBinder("y"), RawTermVar("y")>>>>),
               RawTermAnn(RawTermVar("x"),
                          RawTermCase(RawTermGlobal("true"),
                                      <<<<RawPatternBinder("y"), RawTermGlobal("U16")>>>>))},
        v \in ScopeVars}

ScopeTerms == ScopeVars \cup RawCases \cup RawLams \cup RawPis \cup RawSiblings

InitScopes ==
    /\ tc_env \in ScopeEnvs
    /\ raw_term \in ScopeTerms
    /\ infer_result = None
    /\ NoModule
    /\ norm_term = None
    /\ nf = None
    /\ nf_again = None
    /\ raw_literal = None
    /\ ann = None
    /\ checked = None
    /\ ty1 = None
    /\ ty2 = None
    /\ ty3 = None
    /\ subtypes = None
    /\ NoElaboration

\* normalize(tc_env, term) on the term that infer_term has elaborated.
NormalizeInferred ==
    /\ infer_result # None
    /\ infer_result[1].ok
    /\ nf = None
    /\ nf' = Some(normalize(tc_env.definitions, infer_result[1].value.term, 0))
    /\ UNCHANGED <<tc_env, norm_term, nf_again>>
    /\ UNCHANGED <<elab_vars, sem_vars, infer_vars>>

NextScopes == Infer \/ NormalizeInferred

SpecScopes == InitScopes /\ [][NextScopes]_vars

(***************************************************************************)
(* check_module: the definitions of a raw module are checked in order and  *)
(* each accepted definition is added to the environment.  The binder of    *)
(* each definition is a free variable of its own; a raw term refers to a   *)
(* definition, its own or a later one included, by that variable.          *)
(***************************************************************************)
MaxDefs == 3

RawDefinition(name, def_ann, term) == [name |-> name, ann |-> def_ann, term |-> term]

\* TcEnv::default(): no claims and no definitions.
DefaultTcEnv == [definitions |-> EmptyMap, claims |-> EmptyMap]

\* The annotated definition after infer_term on the annotation (a):
\* normalize, then check_term of the body against the normal form.
check_annotated(env, def, a) ==
    IF ~a.ok THEN a
    ELSE check_against_value(env, def.term,
                             normalize(env.definitions, a.value.term, 0))

\* Mutant of check_definition: the binder is claimed, as a Bool, while its
\* own definition is checked.
check_definition_recursive(env, def) ==
    IF def.ann.tag = "Hole"
    THEN infer_term([env EXCEPT !.claims = (def.name :> bool_ty) @@ env.claims],
                    def.term)
    ELSE check_annotated(env, def, infer_term(env, def.ann))

\* The body of the closure of check_module up to the insertions: Ok of the
\* elaborated term and its type, or the first error.
check_definition(env, def) ==
    IF def.ann.tag = "Hole" THEN infer_term(env, def.term)
    ELSE check_annotated(env, def, infer_term(env, def.ann))

\* Mutant of define: the term is not recorded in tc_env.definitions.
define_claim_only(env, name, r) ==
    [env EXCEPT !.claims = (name :> r.ty) @@ env.claims]

\* tc_env.claims.insert(free_var, ann); tc_env.definitions.insert(free_var,
\* term).
define(env, name, r) ==
    [definitions |-> (name :> r.term) @@ env.definitions,
     claims |-> (name :> r.ty) @@ env.claims]

\* The binders of the definitions, in order, and the variables that raw
\* terms refer to.
DefNames == <<"a", "b", "c", "d", "e">>
ReferredNames == {"a", "b", "c"}

DefTerms ==
    {RawTermVar(n) : n \in ReferredNames}
    \cup {RawTermGlobal("true"), RawTermGlobal("U8"),
          RawTermLiteral(RawInt(BigFrom(5)))}

DefAnns == {RawTermHole, RawTermGlobal("Bool"), RawTermVar("a")}

\* The module of n definitions whose annotations and terms are those of m.
RawModule(n, m) == [k \in 1..n |-> RawDefinition(DefNames[k], m[k][1], m[k][2])]

InitModule ==
    /\ \E n \in 0..MaxDefs :
          \E m \in [1..n -> DefAnns \X DefTerms] : raw_module = RawModule(n, m)
    /\ def_idx = 0
    /\ module_defs = <<>>
    /\ module_error = None
    /\ tc_env = DefaultTcEnv
    /\ norm_term = None
    /\ nf = None
    /\ nf_again = None
    /\ raw_term = None
    /\ infer_result = None
    /\ raw_literal = None
    /\ ann = None
    /\ checked = None
    /\ ty1 = None
    /\ ty2 = None
    /\ ty3 = None
    /\ subtypes = None
    /\ NoElaboration

\* One run of the closure of check_module, on the next definition: it is
\* checked under tc_env and, if accepted, inserted in tc_env and collected;
\* the first error is what check_module returns.
CheckDefinition ==
    /\ module_error = None
    /\ def_idx < Len(raw_module)
    /\ \E r \in {check_definition(tc_env, raw_module[def_idx + 1])} :
          IF r.ok
          THEN /\ tc_env' = define(tc_env, raw_module[def_idx + 1].name, r.value)
               /\ module_defs' =
                      Append(module_defs,
                             [name |-> raw_module[def_idx + 1].name,
                              term |-> r.value.term, ann |-> r.value.ty])
               /\ def_idx' = def_idx + 1
               /\ UNCHANGED module_error
          ELSE /\ module_error' = Some(r.error)
               /\ UNCHANGED <<tc_env, module_defs, def_idx>>
    /\ UNCHANGED <<raw_module, raw_term, infer_result, norm_term, nf, nf_again>>
    /\ UNCHANGED <<elab_vars, sem_vars>>

NextModule == CheckDefinition

SpecModule == InitModule /\ [][NextModule]_vars

(***************************************************************************)
(* Vocabulary of the properties.                                           *)
(***************************************************************************)
\* Item i is the first item of the module with its label.
IsFirstItem(i) ==
    \A j \in 1..(i - 1) : surface_items[j].name # surface_items[i].name

\* The first item of the module labelled l.
FirstItem(l) ==
    CHOOSE i \in DOMAIN surface_items :
        /\ surface_items[i].name = l
        /\ IsFirstItem(i)

\* An item before item i is labelled l.
DefinedBefore(l, i) == \E j \in 1..(i - 1) : surface_items[j].name = l

Indices(n) == [i \in 1..n |-> i]

\* The visited items that are the first with their label, in source order.
RetainedItems == SelectSeq(Indices(idx), IsFirstItem)

DiagsWith(kind, sp) ==
    {k \in DOMAIN diags : diags[k].kind = kind /\ diags[k].span = sp}

DiagsOfKind(kind) == {k \in DOMAIN diags : diags[k].kind = kind}

\* The names synth_term resolves without the item table.
BuiltinNames == FormatNames \cup TypeNames \cup {"Type", "Format", "true", "false"}

\* The body of a core alias: the term under its type annotation, if any
\* (fathom/src/pass/core_to_surface.rs, from_item).
AliasBody(item) == IF item.term.tag = "Ann" THEN item.term.term ELSE item.term

\* The position in core_items of the visited first item i.
CorePos(i) == CHOOSE k \in DOMAIN core_items : core_items[k].span = <<i>>

(***************************************************************************)
(* C1. Every visited item whose label an earlier item already has gets     *)
(* exactly one item-redefinition error, whose primary span is the          *)
(* duplicate's span and whose original span is the span of the first item  *)
(* with that label (also for a third duplicate); no other redefinition     *)
(* error is reported; the output holds exactly the first item of each      *)
(* label.                                                                  *)
(***************************************************************************)
C1_DuplicateItems ==
    /\ \A i \in 1..idx :
          LET ds == DiagsWith("item_redefinition", <<i>>)
          IN  IF IsFirstItem(i)
              THEN ds = {}
              ELSE /\ Cardinality(ds) = 1
                   /\ \A k \in ds :
                         /\ diags[k].original = <<FirstItem(surface_items[i].name)>>
                         /\ diags[k].name = surface_items[i].name
                         /\ diags[k].severity = "error"
    /\ Cardinality(DiagsOfKind("item_redefinition"))
          = idx - Len(RetainedItems)
    /\ Len(core_items) = Len(RetainedItems)
    /\ \A k \in DOMAIN core_items :
          /\ core_items[k].span = <<RetainedItems[k]>>
          /\ core_items[k].name = surface_items[RetainedItems[k]].name
          /\ core_items[k].kind = surface_items[RetainedItems[k]].kind

\* Three items with one label, an alias and a struct among them, have been
\* visited: the third is a duplicate of the first.
C1_Witness ==
    /\ idx = 3
    /\ surface_items[2].name = surface_items[1].name
    /\ surface_items[3].name = surface_items[1].name
    /\ surface_items[2].kind = "Struct"
    /\ surface_items[3].kind = "Alias"
    /\ Len(core_items) = 1

C2_EntryIsOriginal ==
    /\ DOMAIN items = {surface_items[i].name : i \in 1..idx}
    /\ \A l \in DOMAIN items : items[l].span = <<FirstItem(l)>>

C2_EntryKept ==
    \A l \in DOMAIN items : l \in DOMAIN items' /\ items'[l] = items[l]

C2_ReferenceSeesOriginal ==
    idx' = idx + 1 =>
        LET item == surface_items[idx + 1]
        IN  (/\ item.kind = "Alias"
             /\ item.ty = <<>>
             /\ item.term.tag = "Name"
             /\ item.term.name \in DOMAIN items
             /\ item.name \notin DOMAIN items)
            => /\ items'[item.name].ty = items[item.term.name].ty
               /\ core_items'[Len(core_items')].term
                     = CoreItem(<<idx + 1, 1>>, item.term.name)

(***************************************************************************)
(* C2. The item table only grows: an entry, once inserted, is the entry of *)
(* the first item with that label and no later step removes or changes it  *)
(* (not a duplicate with another body or type either); an alias whose body *)
(* is the name of a label in the table is given the type recorded for      *)
(* that label, and its term is the reference to that item.                 *)
(***************************************************************************)
C2_ItemTableMonotone ==
    /\ []C2_EntryIsOriginal
    /\ [][C2_EntryKept /\ C2_ReferenceSeesOriginal]_vars

\* `alias A = U8; alias A = true; alias B = A`: after the duplicate of A with
\* another type, B refers to A and gets the type of the first A.
C2_Witness ==
    /\ idx = 3
    /\ surface_items[1] = Alias("A", <<>>, Name("U8"))
    /\ surface_items[2] = Alias("A", <<>>, Name("true"))
    /\ surface_items[3] = Alias("B", <<>>, Name("A"))
    /\ items["B"].ty = ValueUniverse("Format")

C3_FieldsWellFormed(i, fs) ==
    /\ \A f \in DOMAIN fs :
          /\ Len(fs[f].start) = 2
          /\ fs[f].start[1] = i
          /\ fs[f].start[2] \in DOMAIN surface_items[i].fields
          /\ fs[f].name = surface_items[i].fields[fs[f].start[2]].name
    /\ \A f1, f2 \in DOMAIN fs :
          f1 < f2 => /\ fs[f1].name # fs[f2].name
                     /\ fs[f1].start[2] < fs[f2].start[2]

(***************************************************************************)
(* C3. The output is well-formed with respect to labels: the names of its  *)
(* items are pairwise distinct, the names of the fields of each struct are *)
(* pairwise distinct, and the retained items and fields are in source      *)
(* order (each is the source item or field its span names).                *)
(***************************************************************************)
C3_LabelsWellFormed ==
    /\ \A k \in DOMAIN core_items :
          /\ Len(core_items[k].span) = 1
          /\ core_items[k].span[1] \in 1..idx
          /\ core_items[k].name = surface_items[core_items[k].span[1]].name
          /\ core_items[k].kind = surface_items[core_items[k].span[1]].kind
          /\ core_items[k].kind = "Struct" =>
                C3_FieldsWellFormed(core_items[k].span[1], core_items[k].fields)
    /\ \A k1, k2 \in DOMAIN core_items :
          k1 < k2 => /\ core_items[k1].name # core_items[k2].name
                     /\ core_items[k1].span[1] < core_items[k2].span[1]

\* A module with a duplicate item and a struct with a repeated field has
\* been elaborated: two items remain, the struct with two of three fields.
C3_Witness ==
    /\ idx = 3
    /\ Len(core_items) = 2
    /\ core_items[2].kind = "Struct"
    /\ Len(surface_items[core_items[2].span[1]].fields) = 3
    /\ Len(core_items[2].fields) = 2

RECURSIVE ItemRefs(_)
\* The labels of the item references (Term::Item) of a core term.
ItemRefs(t) ==
    CASE t.tag = "Item" -> {t.name}
      [] t.tag = "Ann" -> ItemRefs(t.term) \cup ItemRefs(t.ty)
      [] t.tag = "BoolElim" ->
            ItemRefs(t.head) \cup ItemRefs(t.if_true) \cup ItemRefs(t.if_false)
      [] t.tag = "IntElim" ->
            ItemRefs(t.head) \cup ItemRefs(t.default)
            \cup UNION {ItemRefs(t.branches[v]) : v \in DOMAIN t.branches}
      [] OTHER -> {}

ItemRefsOf(item) ==
    IF item.kind = "Alias" THEN ItemRefs(item.term)
    ELSE UNION {ItemRefs(item.fields[f].term) : f \in DOMAIN item.fields}

\* The name n, used in item i, is neither built in nor the label of an item
\* before item i: it is the label of item i itself, of a later item, or of none.
C4_Unresolvable(n, i) == n \notin BuiltinNames /\ ~DefinedBefore(n, i)

C4_AliasUnbound(i) ==
    LET item == surface_items[i]
    IN  (item.ty = <<>> /\ item.term.tag = "Name" /\ C4_Unresolvable(item.term.name, i))
        => /\ Cardinality(DiagsWith("var_name_not_found", <<i, 1>>)) = 1
           /\ IsFirstItem(i) => core_items[CorePos(i)].term = CoreError(<<i, 1>>)

C4_FieldsUnbound(i) ==
    \A j \in DOMAIN surface_items[i].fields :
        LET field == surface_items[i].fields[j]
        IN  (field.term.tag = "Name" /\ C4_Unresolvable(field.term.name, i))
            => /\ Cardinality(DiagsWith("var_name_not_found", <<i, j, 1>>)) = 1
               /\ IsFirstItem(i) =>
                     \A f \in DOMAIN core_items[CorePos(i)].fields :
                         core_items[CorePos(i)].fields[f].start = <<i, j>>
                         => core_items[CorePos(i)].fields[f].term = CoreError(<<i, j, 1>>)

(***************************************************************************)
(* C4. Items are referenced only after their definition: every item        *)
(* reference in output item k names a built-in name or the label of an     *)
(* output item before k; a name that is not built in and is the label of   *)
(* no earlier item (the item's own label, a later item's) is reported once *)
(* as an unbound name and elaborates to the error sentinel.                *)
(***************************************************************************)
C4_NoForwardReference ==
    /\ \A k \in DOMAIN core_items :
          \A n \in ItemRefsOf(core_items[k]) :
              \/ n \in BuiltinNames
              \/ \E k2 \in 1..(k - 1) : core_items[k2].name = n
    /\ \A i \in 1..idx :
          IF surface_items[i].kind = "Alias"
          THEN C4_AliasUnbound(i)
          ELSE C4_FieldsUnbound(i)

\* `alias B = A; alias A = A; struct B { x : U32Be, x : A, y : B }`: a forward
\* reference, a self reference, and a reference to an earlier item.
C4_Witness ==
    /\ idx = 3
    /\ surface_items[1] = Alias("B", <<>>, Name("A"))
    /\ surface_items[2] = Alias("A", <<>>, Name("A"))
    /\ surface_items[3].kind = "Struct"
    /\ core_items[1].term = CoreError(<<1, 1>>)
    /\ core_items[2].term = CoreError(<<2, 1>>)
    /\ Cardinality(DiagsOfKind("var_name_not_found")) = 2

\* The type the name n resolves to in item i.
C6_ResolvedType(n, i) ==
    IF DefinedBefore(n, i) THEN items[n].ty
    ELSE IF n \in FormatNames THEN ValueUniverse("Format")
    ELSE IF n \in TypeNames THEN ValueUniverse("Type")
    ELSE ValueError

\* The name n, used in item i, is the label of an earlier struct that was
\* accepted, or a sized format name that no earlier item has taken.
C6_FormatName(n, i) ==
    \/ DefinedBefore(n, i) /\ surface_items[FirstItem(n)].kind = "Struct"
    \/ ~DefinedBefore(n, i) /\ n \in FormatNames

C6_FieldAccepted(i, j) ==
    LET field == surface_items[i].fields[j]
        first == \A j2 \in 1..(j - 1) : surface_items[i].fields[j2].name # field.name
    IN  (field.term.tag = "Name" /\ C6_FormatName(field.term.name, i))
        => /\ \A k \in DOMAIN diags : diags[k].span # <<i, j, 1>>
           /\ (IsFirstItem(i) /\ first) =>
                 \E f \in DOMAIN core_items[CorePos(i)].fields :
                     core_items[CorePos(i)].fields[f]
                         = CoreTypeField(<<i, j>>, field.name,
                                         CoreItem(<<i, j, 1>>, field.term.name))

(***************************************************************************)
(* C6. Every field term of an output struct is the error sentinel or a     *)
(* term that passed the check against the universe Format (a reference     *)
(* whose type is Format, or the error value of an item already reported);  *)
(* every accepted struct is in the item table with type Format; so the     *)
(* name of an earlier accepted struct, and each sized format name, is      *)
(* accepted as a field type with no diagnostic.                            *)
(***************************************************************************)
C6_FieldsAreFormats ==
    /\ \A k \in DOMAIN core_items :
          core_items[k].kind = "Struct" =>
             /\ core_items[k].name \in DOMAIN items
             /\ items[core_items[k].name]
                   = [span |-> core_items[k].span, ty |-> ValueUniverse("Format")]
             /\ \A f \in DOMAIN core_items[k].fields :
                   LET t == core_items[k].fields[f].term
                   IN  \/ t.tag = "Error"
                       \/ /\ t.tag = "Item"
                          /\ C6_ResolvedType(t.name, core_items[k].span[1])
                                \in {ValueUniverse("Format"), ValueError}
    /\ \A i \in 1..idx :
          surface_items[i].kind = "Struct" =>
              \A j \in DOMAIN surface_items[i].fields : C6_FieldAccepted(i, j)

\* `struct A { x : U32Be, .. }; struct B { x : A, y : U8 }`: the second struct
\* has a field whose type is the first struct and one whose type is U8.
C6_Witness ==
    /\ idx = 2
    /\ surface_items[1].kind = "Struct" /\ surface_items[1].name = "A"
    /\ surface_items[2].kind = "Struct" /\ surface_items[2].name = "B"
    /\ Len(core_items) = 2
    /\ core_items[1].fields[1].term = CoreItem(<<1, 1, 1>>, "U32Be")
    /\ Len(core_items[2].fields) = 2
    /\ core_items[2].fields[1].term = CoreItem(<<2, 1, 1>>, "A")
    /\ core_items[2].fields[2].term = CoreItem(<<2, 2, 1>>, "U8")

\* An error was reported at the body of alias i.
C7_BodyFailed(i) ==
    \E k \in DOMAIN diags : diags[k].span = <<i, 1>> /\ diags[k].severity = "error"

\* Item i is `alias l : U8 = 256` and no earlier item has taken the name U8.
C7_OutOfRangeAlias(i) ==
    /\ surface_items[i].kind = "Alias"
    /\ surface_items[i].ty = <<Name("U8")>>
    /\ surface_items[i].term = NumberLiteral(256)
    /\ ~DefinedBefore("U8", i)

(***************************************************************************)
(* C7. The elaborator is error-tolerant: while items remain the loop takes *)
(* its next step whatever was reported before; every visited item with a   *)
(* fresh label is in the output; an alias whose body failed to check is in *)
(* the output with the error sentinel as its body (`alias l : U8 = 256`    *)
(* reports one diagnostic at the literal and yields the error sentinel     *)
(* under the annotation U8).                                               *)
(***************************************************************************)
C7_ErrorTolerant ==
    /\ idx < Len(surface_items) => ENABLED Next
    /\ \A i \in 1..idx :
          IsFirstItem(i) =>
             /\ \E k \in DOMAIN core_items : core_items[k].span = <<i>>
             /\ (surface_items[i].kind = "Alias" /\ C7_BodyFailed(i))
                   => AliasBody(core_items[CorePos(i)]) = CoreError(<<i, 1>>)
    /\ \A i \in 1..idx :
          C7_OutOfRangeAlias(i) =>
             /\ Cardinality(DiagsWith("numeric_literal_not_supported", <<i, 1>>)) = 1
             /\ IsFirstItem(i) =>
                   core_items[CorePos(i)].term
                      = CoreAnn(CoreError(<<i, 1>>), CoreItem(<<i, 0>>, "U8"))

\* `alias B : U8 = 256` first, then two items with fresh labels: all three are
\* in the output, the first with the error sentinel as its body.
C7_Witness ==
    /\ idx = 3
    /\ C7_OutOfRangeAlias(1)
    /\ diags # <<>>
    /\ diags[1].kind = "numeric_literal_not_supported"
    /\ Len(core_items) = 3
    /\ AliasBody(core_items[1]) = CoreError(<<1, 1>>)

(***************************************************************************)
(* Vocabulary of the properties of elaborate_struct_ty_fields.             *)
(***************************************************************************)
IsFirstField(j) ==
    \A j2 \in 1..(j - 1) : surface_fields[j2].name # surface_fields[j].name

FirstField(l) ==
    CHOOSE j \in DOMAIN surface_fields :
        /\ surface_fields[j].name = l
        /\ IsFirstField(j)

RetainedFields == SelectSeq(Indices(fidx), IsFirstField)

\* What checking the term of field j against Format gives.
CheckedField(j) ==
    check_term(items, StructSpan \o <<j, 1>>, surface_fields[j].term,
               ValueUniverse("Format"))

(***************************************************************************)
(* C5. In elaborate_struct_ty_fields a field whose label repeats an        *)
(* earlier field of the struct gets exactly one field-redeclaration error  *)
(* pointing to the span of the first field with that label and is not      *)
(* added to the field list (the first definition wins); the fields after   *)
(* it are still elaborated: the loop goes on, their terms are checked and  *)
(* their diagnostics reported, and those with fresh labels are added.      *)
(***************************************************************************)
C5_DuplicateFields ==
    /\ \A j \in 1..fidx :
          LET ds == DiagsWith("field_redeclaration", StructSpan \o <<j>>)
          IN  IF IsFirstField(j)
              THEN ds = {}
              ELSE /\ Cardinality(ds) = 1
                   /\ \A k \in ds :
                         /\ diags[k].original
                               = StructSpan \o <<FirstField(surface_fields[j].name)>>
                         /\ diags[k].name = surface_fields[j].name
                         /\ diags[k].severity = "error"
    /\ Len(core_fields) = Len(RetainedFields)
    /\ \A k \in DOMAIN core_fields :
          core_fields[k]
             = CoreTypeField(StructSpan \o <<RetainedFields[k]>>,
                             surface_fields[RetainedFields[k]].name,
                             CheckedField(RetainedFields[k]).term)
    /\ \A j \in 1..fidx :
          \A d \in DOMAIN CheckedField(j).diags :
              \E k \in DOMAIN diags : diags[k] = CheckedField(j).diags[d]
    /\ fidx < Len(surface_fields) => ENABLED NextFields

\* `x : U32Be, x : A, y : X` with A an alias of type Bool: the second field
\* repeats the first, the third is fresh and its term is unbound.
C5_Witness ==
    /\ fidx = 3
    /\ surface_fields[1] = TypeField("x", Name("U32Be"))
    /\ surface_fields[2] = TypeField("x", Name("A"))
    /\ surface_fields[3] = TypeField("y", Name("X"))
    /\ "A" \in DOMAIN items /\ items["A"].ty = BoolTy
    /\ Len(core_fields) = 2
    /\ core_fields[2].term = CoreError(StructSpan \o <<3, 1>>)
    /\ Len(diags) = 3

\* The decimal value of a BigInt that fits a model integer.
RECURSIVE MagValue(_)
MagValue(m) == IF m = <<>> THEN 0 ELSE MagValue(Front(m)) * Base + m[Len(m)]

BigValue(b) == IF b.neg THEN -MagValue(b.mag) ELSE MagValue(b.mag)

\* 2^k as a BigInt, and the negation of a BigInt.
BigPow2(k) == BigInt(FALSE, <<2 ^ (k % 16)>> \o Repeat(0, k \div 16))
BigNeg(b) == BigInt(b.mag # <<>> /\ ~b.neg, b.mag)

\* The least and the greatest integer of a machine type of the given width.
MinOf(T) == IF T.signed THEN BigNeg(BigPow2(T.bits - 1)) ELSE BigFrom(0)
MaxOf(T) == BigPred(BigPow2(IF T.signed THEN T.bits - 1 ELSE T.bits))

InRange(n, T) == BigLe(MinOf(T), n) /\ BigLe(n, MaxOf(T))

\* The width and signedness the names of the sized integer types stand for.
SizedIntTypes ==
    [U8 |-> [signed |-> FALSE, bits |-> 8], U16 |-> [signed |-> FALSE, bits |-> 16],
     U32 |-> [signed |-> FALSE, bits |-> 32], U64 |-> [signed |-> FALSE, bits |-> 64],
     S8 |-> [signed |-> TRUE, bits |-> 8], S16 |-> [signed |-> TRUE, bits |-> 16],
     S32 |-> [signed |-> TRUE, bits |-> 32], S64 |-> [signed |-> TRUE, bits |-> 64]]

EndianIntTypes ==
    [U16Le |-> SizedIntTypes["U16"], U16Be |-> SizedIntTypes["U16"],
     U32Le |-> SizedIntTypes["U32"], U32Be |-> SizedIntTypes["U32"],
     U64Le |-> SizedIntTypes["U64"], U64Be |-> SizedIntTypes["U64"],
     S16Le |-> SizedIntTypes["S16"], S16Be |-> SizedIntTypes["S16"],
     S32Le |-> SizedIntTypes["S32"], S32Be |-> SizedIntTypes["S32"],
     S64Le |-> SizedIntTypes["S64"], S64Be |-> SizedIntTypes["S64"]]

IntLiteralChecked == checked # None /\ raw_literal.tag = "Int"

(***************************************************************************)
(* C8 as claimed. For each Ty among U8..S64 and the endian-tagged          *)
(* U16Le..S64Be, checking the integer literal n against the normal form of *)
(* Ty succeeds if and only if min(Ty) <= n <= max(Ty).                     *)
(***************************************************************************)
C8_AsClaimed ==
    IntLiteralChecked =>
        \A name \in DOMAIN SizedIntTypes \cup DOMAIN EndianIntTypes :
            ann = name =>
                (checked[1].ok
                    <=> InRange(raw_literal.value,
                                (SizedIntTypes @@ EndianIntTypes)[name]))

(***************************************************************************)
(* C8. For each Ty among U8, U16, U32, U64, S8, S16, S32, S64, checking    *)
(* the integer literal n against the normal form of Ty succeeds, with the  *)
(* literal n as its result, if and only if min(Ty) <= n <= max(Ty);        *)
(* against the normal form of an endian-tagged global (U16Le..S64Be),      *)
(* which is the global itself, every integer literal is rejected with a    *)
(* literal mismatch.                                                       *)
(***************************************************************************)
C8_SizedIntegerSubsumption ==
    IntLiteralChecked =>
        /\ \A name \in DOMAIN SizedIntTypes :
              ann = name =>
                  /\ checked[1].ok
                        <=> InRange(raw_literal.value, SizedIntTypes[name])
                  /\ checked[1].ok
                        => checked[1].value = LiteralInt(raw_literal.value)
                  /\ ~checked[1].ok => checked[1].error = "LiteralMismatch"
        /\ \A name \in DOMAIN EndianIntTypes :
              ann = name => checked[1] = Err("LiteralMismatch")

\* 2^32 - 1 has been checked against U32 and accepted.
C8_Witness ==
    /\ IntLiteralChecked
    /\ ann = "U32"
    /\ raw_literal.value = BigInt(FALSE, <<Base - 1, Base - 1>>)
    /\ checked[1].ok

\* A present bound that is an integer literal.
IsIntBound(b) == b # None /\ is_int_literal(b[1])

\* lo2 <= lo1, an absent lower bound being minus infinity.
LoInBounds(lo1, lo2) ==
    IF lo2 = None THEN TRUE
    ELSE IF lo1 = None THEN FALSE
    ELSE IF IsIntBound(lo1) /\ IsIntBound(lo2)
    THEN BigValue(lo2[1].literal.value) <= BigValue(lo1[1].literal.value)
    ELSE lo1[1] = lo2[1]

\* hi1 <= hi2, an absent upper bound being plus infinity.
HiInBounds(hi1, hi2) ==
    IF hi2 = None THEN TRUE
    ELSE IF hi1 = None THEN FALSE
    ELSE IF IsIntBound(hi1) /\ IsIntBound(hi2)
    THEN BigValue(hi1[1].literal.value) <= BigValue(hi2[1].literal.value)
    ELSE hi1[1] = hi2[1]

IntervalInBounds(t1, t2) ==
    LoInBounds(t1.min, t2.min) /\ HiInBounds(t1.max, t2.max)

(***************************************************************************)
(* C9. is_subtype(IntType(lo1, hi1), IntType(lo2, hi2)) holds if and only  *)
(* if lo2 <= lo1 and hi1 <= hi2, an absent lower bound being minus         *)
(* infinity and an absent upper bound plus infinity, two integer literals  *)
(* being compared as integers, and two present bounds that are not both    *)
(* integer literals being in bounds only when they are equal.              *)
(***************************************************************************)
C9_IntervalSubtype ==
    subtypes # None =>
        /\ subtypes[1].t11 = IntervalInBounds(ty1, ty1)
        /\ subtypes[1].t12 = IntervalInBounds(ty1, ty2)
        /\ subtypes[1].t23 = IntervalInBounds(ty2, ty3)
        /\ subtypes[1].t13 = IntervalInBounds(ty1, ty3)

\* [0, x] <: (-oo, x] by a literal against an absent bound and two equal
\* neutral bounds, while (-oo, x] is no subtype of [-1, 1].
C9_Witness ==
    /\ subtypes # None
    /\ ty1 = IntType(Some(Literal(LiteralInt(BigFrom(0)))), Some(var("x")))
    /\ ty2 = IntType(None, Some(var("x")))
    /\ ty3 = IntType(Some(Literal(LiteralInt(BigFrom(-1)))),
                     Some(Literal(LiteralInt(BigFrom(1)))))
    /\ subtypes[1].t12
    /\ ~subtypes[1].t23

(***************************************************************************)
(* C10. On interval types whose bounds are absent, literals or neutral,    *)
(* is_subtype is reflexive (A <: A) and transitive (A <: B and B <: C      *)
(* imply A <: C).                                                          *)
(***************************************************************************)
C10_ReflexiveTransitive ==
    subtypes # None =>
        /\ subtypes[1].t11
        /\ subtypes[1].t12 /\ subtypes[1].t23 => subtypes[1].t13

\* A chain of three different intervals: [0, 0] <: [-1, 1] <: (-oo, +oo).
C10_Witness ==
    /\ subtypes # None
    /\ ty1 = IntType(Some(Literal(LiteralInt(BigFrom(0)))),
                     Some(Literal(LiteralInt(BigFrom(0)))))
    /\ ty2 = IntType(Some(Literal(LiteralInt(BigFrom(-1)))),
                     Some(Literal(LiteralInt(BigFrom(1)))))
    /\ ty3 = IntType(None, None)
    /\ subtypes[1].t12
    /\ subtypes[1].t23
    /\ subtypes[1].t13

\* lo <= min(T) and max(T) <= hi, an absent bound being infinite.
CoversMachineInt(T, ty) ==
    /\ ty.min = None \/ BigLe(ty.min[1].literal.value, MinOf(T))
    /\ ty.max = None \/ BigLe(MaxOf(T), ty.max[1].literal.value)

GlobalSubtypeDecided == subtypes # None /\ ty1 \in GlobalTypes

(***************************************************************************)
(* C11. Each sized endian integer global (U16Le .. S64Le, U16Be .. S64Be), *)
(* as a neutral global with empty spine, is a subtype of IntType(lo, hi)   *)
(* exactly when lo <= min and max <= hi of its width and signedness, so    *)
(* the Le and Be variants of one width behave identically.                 *)
(***************************************************************************)
C11_EndianIntSubtype ==
    GlobalSubtypeDecided =>
        \A name \in DOMAIN EndianIntTypes :
            ty1 = global(name) /\ ty2 \in LimitTypes =>
                (subtypes[1].t12 <=> CoversMachineInt(EndianIntTypes[name], ty2))

\* S32Be <: [-2^31, 2^31 - 1] has been decided and holds.
C11_Witness ==
    /\ GlobalSubtypeDecided
    /\ ty1 = global("S32Be")
    /\ ty2 = IntType(Some(Literal(LiteralInt(MinOf(SizedIntTypes["S32"])))),
                     Some(Literal(LiteralInt(MaxOf(SizedIntTypes["S32"])))))
    /\ subtypes[1].t12

Floats32 == {"F32", "F32Le", "F32Be"}
Floats64 == {"F64", "F64Le", "F64Be"}

\* The pairs of float globals in the subtype relation: each with itself,
\* and each endian float with the float of its width.
FloatSubtypes ==
    {<<n, n>> : n \in Floats32 \cup Floats64}
    \cup {<<"F32Le", "F32">>, <<"F32Be", "F32">>,
          <<"F64Le", "F64">>, <<"F64Be", "F64">>}

(***************************************************************************)
(* C12. Among the float globals, F32Le <: F32, F32Be <: F32, F64Le <: F64  *)
(* and F64Be <: F64 hold, while F32Le and F32Be are not subtypes of each   *)
(* other, F32 is a subtype of neither, no 32-bit float is a subtype of a   *)
(* 64-bit one nor a 64-bit one of a 32-bit one (likewise for 64 bits).     *)
(***************************************************************************)
C12_FloatEndianness ==
    GlobalSubtypeDecided =>
        \A n1, n2 \in Floats32 \cup Floats64 :
            ty1 = global(n1) /\ ty2 = global(n2) =>
                /\ subtypes[1].t12 <=> <<n1, n2>> \in FloatSubtypes
                /\ subtypes[1].t23 <=> <<n2, n1>> \in FloatSubtypes

\* F32Be <: F32 holds and F32 <: F32Be does not.
C12_Witness ==
    /\ GlobalSubtypeDecided
    /\ ty1 = global("F32Be")
    /\ ty2 = global("F32")
    /\ subtypes[1].t12
    /\ ~subtypes[1].t23

(***************************************************************************)
(* Vocabulary of the properties of the item under study (SpecTerms).       *)
(***************************************************************************)
\* The loop has gone through every item of the module.
Finished == ~aborted /\ idx = Len(surface_items) /\ surface_items # <<>>

LastIndex == Len(surface_items)
Studied == surface_items[LastIndex]
StudiedCore == core_items[Len(core_items)]

\* The spans of the annotation and of the term of the alias under study.
AnnSpan == <<LastIndex, 0>>
TermSpan == <<LastIndex, 1>>

\* The diagnostics reported while the item under study was elaborated.
StudiedDiags ==
    SelectSeq(diags, LAMBDA d : d.span # <<>> /\ d.span[1] = LastIndex)

StudiedAlias == Finished /\ Studied.kind = "Alias" /\ Studied.name = "T"

\* The elaborated term of the alias under study, without its annotation.
StudiedTerm ==
    IF Studied.ty = <<>> THEN StudiedCore.term ELSE StudiedCore.term.term

NotFound(sp, name) == Diagnostic("var_name_not_found", "error", sp, <<>>, name, <<>>)

\* The annotations of the alias under study whose value is not the error
\* value.
SoundAnnotations ==
    {<<Name("Int")>>, <<Name("Bool")>>, <<Name("Format")>>, <<Name("Type")>>}

UnderValuePrelude == SubSeq(surface_items, 1, LastIndex - 1) = ValuePrelude

\* The parts of C13 that hold as claimed: the error type absorbs the term
\* checked against it, a surface error node and a match on a scrutinee of
\* the error type give the error term, and none of them reports anything.
ErrorTermCases ==
    StudiedAlias /\ UnderValuePrelude =>
        /\ Studied.ty \in {<<Name("X")>>, <<SurfaceError>>} =>
              /\ StudiedCore.term = CoreAnn(CoreError(TermSpan), CoreError(AnnSpan))
              /\ StudiedDiags = IF Studied.ty = <<SurfaceError>> THEN <<>>
                                ELSE <<NotFound(AnnSpan, "X")>>
        /\ Studied.term = SurfaceError =>
              /\ StudiedTerm = CoreError(TermSpan)
              /\ \A k \in DOMAIN StudiedDiags : StudiedDiags[k].span = AnnSpan
        /\ /\ Studied.ty \in SoundAnnotations
           /\ Studied.term.tag = "Match"
           /\ Studied.term.head \in {Name("A"), Name("X")}
           => /\ StudiedTerm = CoreError(TermSpan)
              /\ StudiedDiags = IF Studied.term.head = Name("A") THEN <<>>
                                ELSE <<NotFound(TermSpan \o <<0>>, "X")>>

\* No diagnostic is about the error value: none has it as the expected or
\* the found type.
NoDiagnosticAboutError ==
    \A k \in DOMAIN diags :
        \A j \in DOMAIN diags[k].notes : diags[k].notes[j] # ValueError

\* The terms of the inputs that refer to the item A, whose recorded type is
\* the error value.
RefersToA(t) == t \in {Name("A"), Paren(Name("A"))}
RefToA(t, sp) == CoreItem(IF t.tag = "Paren" THEN sp \o <<0>> ELSE sp, "A")

(***************************************************************************)
(* C13 as claimed. Every operation that involves the error value yields    *)
(* the error term and reports no further diagnostic; among them the        *)
(* elaboration of a universe from, and the check of, a term whose          *)
(* synthesized type is the error value.                                    *)
(***************************************************************************)
C13_AsClaimed ==
    /\ ErrorTermCases
    /\ NoDiagnosticAboutError
    /\ StudiedAlias /\ UnderValuePrelude =>
          /\ Studied.ty = <<Name("A")>> => StudiedCore.term.ty.tag = "Error"
          /\ Studied.ty \in SoundAnnotations /\ RefersToA(Studied.term) =>
                StudiedTerm.tag = "Error" /\ StudiedDiags = <<>>

(***************************************************************************)
(* C13. Checking a term against the error type, checking or synthesizing   *)
(* a surface error node and matching on a scrutinee whose type is the      *)
(* error value yield the error term; elaborating a universe from, or       *)
(* checking or comparing, a term whose synthesized type is the error value *)
(* yields the synthesized term (a reference to an item of that type stays  *)
(* an item reference); none of them reports a diagnostic of its own, and   *)
(* no diagnostic of the module has the error value as its expected or      *)
(* found type. One unbound name used as a type annotation, as an           *)
(* if-condition or as an alias body whose alias is referred to later is    *)
(* reported exactly once.                                                  *)
(***************************************************************************)
C13_ErrorAbsorption ==
    /\ ErrorTermCases
    /\ NoDiagnosticAboutError
    /\ StudiedAlias /\ UnderValuePrelude =>
          /\ Studied.ty = <<Name("A")>> =>
                /\ StudiedCore.term.ty = CoreItem(AnnSpan, "A")
                /\ \A k \in DOMAIN StudiedDiags : StudiedDiags[k].span # AnnSpan
          /\ Studied.ty \in SoundAnnotations \cup {<<>>, <<Name("A")>>}
                /\ RefersToA(Studied.term) =>
                /\ StudiedTerm = RefToA(Studied.term, TermSpan)
                /\ StudiedDiags = <<>>
                /\ diags = <<NotFound(<<1, 1>>, "X")>>
          /\ Studied.ty = <<>> /\ Studied.term.tag = "If" =>
                /\ Studied.term.head = Name("X")
                      /\ {Studied.term.if_true, Studied.term.if_false}
                            \subseteq {Name("U8"), Name("A")} =>
                      StudiedDiags = <<NotFound(TermSpan \o <<0>>, "X")>>
                /\ Studied.term.head = Name("true")
                      /\ Name("A") \in {Studied.term.if_true, Studied.term.if_false}
                      /\ {Studied.term.if_true, Studied.term.if_false}
                            \subseteq {Name("U8"), Name("A"), Name("true"), Name("n")} =>
                      StudiedTerm.tag = "BoolElim" /\ StudiedDiags = <<>>

\* `alias A = X; ...; alias T : Format = A`: the reference to A is checked
\* against Format and kept, and the module has the one diagnostic of X.
C13_Witness ==
    /\ StudiedAlias
    /\ UnderValuePrelude
    /\ Studied.ty = <<Name("Format")>>
    /\ Studied.term = Name("A")
    /\ StudiedTerm = CoreItem(TermSpan, "A")
    /\ Len(diags) = 1

(***************************************************************************)
(* C14. Normalization is idempotent: when normalize succeeds on a term     *)
(* under an environment, normalizing the term its value reads back as,     *)
(* under the same environment, succeeds with an alpha-equivalent value.    *)
(***************************************************************************)
C14_NormalizeIdempotent ==
    nf_again # None => nf_again[1].ok /\ nf_again[1].value = nf[1].value

\* (k true) x, with k a definition: two beta steps unfold it to the literal
\* true, which is its own normal form.
C14_Witness ==
    /\ nf_again # None
    /\ norm_term = TermApp(TermApp(TermVar(Free("k")), TermGlobal("true")),
                           TermVar(Free("x")))
    /\ tc_env.definitions = Definitions
    /\ nf[1] = Ok(Literal(LiteralBool(TRUE)))
    /\ nf_again[1] = nf[1]

(***************************************************************************)
(* Matches of the alias under study (SpecTerms): `alias T : ty = match h   *)
(* { ... }` after the value prelude, with ty an annotation whose value is  *)
(* not the error value, so that the match is checked by check_term.        *)
(***************************************************************************)
CheckedMatch ==
    /\ surface_items # <<>>
    /\ Studied.kind = "Alias"
    /\ Studied.name = "T"
    /\ Studied.ty \in SoundAnnotations
    /\ Studied.term.tag = "Match"
    /\ UnderValuePrelude

\* The elaborator is about to elaborate, or has elaborated, the item under
\* study.
AtStudied == idx >= LastIndex - 1

(***************************************************************************)
(* C15. Checking a match whose scrutinee has type Bool returns a term for  *)
(* every list of branches, and the term is a boolean elimination of the    *)
(* scrutinee.                                                              *)
(***************************************************************************)
C15_BoolMatchElaborates ==
    CheckedMatch /\ Studied.term.head = Name("true") /\ AtStudied =>
        /\ ~aborted
        /\ idx = LastIndex =>
              /\ StudiedTerm.tag = "BoolElim"
              /\ StudiedTerm.span = TermSpan
              /\ StudiedTerm.head.span = TermSpan \o <<0>>

\* A finished check of a match on the item n, whose type is Int.
IntMatch ==
    /\ CheckedMatch
    /\ Finished
    /\ Studied.term.head \in {Name("n"), Paren(Name("n"))}

Branches == Studied.term.branches
IsName(k) == Branches[k][1].tag = "Name"
LiteralValue(k) == parse_big_int(Branches[k][1].lit)[1]

\* The index of the first name pattern, 0 when there is none.
FirstName ==
    IF \E k \in DOMAIN Branches : IsName(k)
    THEN CHOOSE k \in DOMAIN Branches :
             IsName(k) /\ \A j \in 1..(k - 1) : ~IsName(j)
    ELSE 0

BeforeFirstName(k) == FirstName = 0 \/ k < FirstName

\* Branch k is the first literal branch of its value before the first name
\* pattern, or the first name pattern.
Kept(k) ==
    IF IsName(k) THEN k = FirstName
    ELSE /\ BeforeFirstName(k)
         /\ \A j \in 1..(k - 1) : LiteralValue(j) # LiteralValue(k)

\* The body of branch k, checked against the expected type of the match.
BranchBody(k) ==
    check_term(items, TermSpan \o <<k, 1>>, Branches[k][2],
               eval(StudiedCore.term.ty)).term

UnreachablePattern(k) ==
    Diagnostic("unreachable_pattern", "warning", TermSpan \o <<k, 0>>, <<>>, "", <<>>)

UnreachableWarnings ==
    SelectSeq(StudiedDiags, LAMBDA d : d.kind = "unreachable_pattern")

NoDefaultPattern ==
    Diagnostic("no_default_pattern", "error", TermSpan \o <<0>>, <<>>, "", <<>>)

MissingDefaults ==
    SelectSeq(StudiedDiags, LAMBDA d : d.kind = "no_default_pattern")

(***************************************************************************)
(* C17. For a match on an Int scrutinee with no name pattern, the match    *)
(* with no branches included, exactly one missing-default error is         *)
(* reported, at the span of the scrutinee, and the result is an integer    *)
(* elimination that holds the collected literal branches and has the       *)
(* error sentinel as its default.                                          *)
(***************************************************************************)
C17_MissingDefault ==
    IntMatch /\ FirstName = 0 =>
        /\ MissingDefaults = <<NoDefaultPattern>>
        /\ StudiedDiags[Len(StudiedDiags)] = NoDefaultPattern
        /\ StudiedTerm.tag = "IntElim"
        /\ StudiedTerm.span = TermSpan
        /\ StudiedTerm.default = CoreError(SpanInitial)
        /\ DOMAIN StudiedTerm.branches = {LiteralValue(k) : k \in DOMAIN Branches}
        /\ \A k \in DOMAIN Branches :
              Kept(k) => StudiedTerm.branches[LiteralValue(k)] = BranchBody(k)

\* `alias T : Int = match (n) { }`: no branch at all; the error is reported
\* at the parenthesized scrutinee and the branch map is empty.
C17_Witness ==
    /\ IntMatch
    /\ Studied.ty = <<Name("Int")>>
    /\ Studied.term = Match(Paren(Name("n")), <<>>)
    /\ StudiedTerm = CoreIntElim(TermSpan, CoreItem(TermSpan \o <<0, 0>>, "n"),
                                 EmptyMap, CoreError(SpanInitial))
    /\ StudiedDiags = <<NoDefaultPattern>>

(***************************************************************************)
(* C18. Synthesizing the type of an integer literal n with no expected     *)
(* type succeeds: `alias T = n` is elaborated without a diagnostic to the  *)
(* literal constant n, and T is recorded with the singleton interval type  *)
(* IntType(n, n).                                                          *)
(***************************************************************************)
C18_IntLiteralSynthesizes ==
    /\ StudiedAlias
    /\ UnderValuePrelude
    /\ Studied.ty = <<>>
    /\ Studied.term.tag = "NumberLiteral"
    => /\ StudiedTerm = CoreConstant(TermSpan, "Int",
                                     parse_big_int(Studied.term.lit)[1])
       /\ items["T"].ty =
             IntType(Some(Literal(LiteralInt(BigFrom(Studied.term.lit)))),
                     Some(Literal(LiteralInt(BigFrom(Studied.term.lit)))))
       /\ StudiedDiags = <<>>

\* The alias under study is annotated with the bare name of a universe.
UniverseAnnotated ==
    /\ StudiedAlias
    /\ Studied.ty # <<>>
    /\ Studied.ty[1].tag = "Name"
    /\ Studied.ty[1].name \in UniverseNames

AnnName == Studied.ty[1].name
ElaboratedAnn == StudiedCore.term.ty
AnnDiags == SelectSeq(diags, LAMBDA d : d.span = AnnSpan)

(***************************************************************************)
(* C19. elaborate_universe maps the name Type, Format or Kind directly to  *)
(* the universe of that name if and only if the item table holds no item   *)
(* with that label.  When such an item exists the result is a reference to *)
(* the item if its recorded type is a universe or the error value, and     *)
(* otherwise the error term, with one universe-mismatch error reported.    *)
(***************************************************************************)
C19_ReservedNames ==
    UniverseAnnotated =>
        /\ ElaboratedAnn = CoreUniverse(AnnSpan, AnnName) <=> AnnName \notin DOMAIN items
        /\ AnnName \notin DOMAIN items => AnnDiags = <<>>
        /\ AnnName \in DOMAIN items =>
              IF items[AnnName].ty.tag \in {"Universe", "Error"}
              THEN /\ ElaboratedAnn = CoreItem(AnnSpan, AnnName)
                   /\ AnnDiags = <<>>
              ELSE /\ ElaboratedAnn = CoreError(AnnSpan)
                   /\ AnnDiags = <<Diagnostic("universe_mismatch", "error", AnnSpan,
                                              <<>>, "", <<items[AnnName].ty>>)>>

\* `struct Type {}; alias T : Type = U8`: Type is an item of type Format, so
\* the annotation is a reference to the struct and not the universe.
C19_Witness ==
    /\ UniverseAnnotated
    /\ surface_items = <<Struct("Type", <<>>), Alias("T", <<Name("Type")>>, Name("U8"))>>
    /\ items["Type"].ty = ValueUniverse("Format")
    /\ ElaboratedAnn = CoreItem(<<2, 0>>, "Type")
    /\ AnnDiags = <<>>

(***************************************************************************)
(* Vocabulary of the synthesis of if-expressions (SpecIf).                 *)
(***************************************************************************)
\* infer_term has run on an if-expression whose condition checks against
\* Bool and whose first branch has an inferred type.
IfInferred ==
    /\ infer_result # None
    /\ raw_term.tag = "If"
    /\ semantics_check_term(tc_env, raw_term.cond, bool_ty).ok
    /\ infer_term(tc_env, raw_term.if_true).ok

InferResult == infer_result[1]
ThenTy == infer_term(tc_env, raw_term.if_true).value.ty
ElseInferred == infer_term(tc_env, raw_term.if_false)
ElseTy == ElseInferred.value.ty

IsFloatTy(ty) == ty \in {global("F32"), global("F64")}

\* The surface elaborator has synthesized `alias T = if c then a else b`.
IfSynthesized ==
    /\ StudiedAlias
    /\ UnderValuePrelude
    /\ Studied.ty = <<>>
    /\ Studied.term.tag = "If"

SynthThenTy == synth_term(items, TermSpan \o <<1>>, Studied.term.if_true).ty
SynthElseTy == synth_term(items, TermSpan \o <<2>>, Studied.term.if_false).ty

BranchMismatch ==
    Diagnostic("type_mismatch", "error", TermSpan \o <<2>>, <<>>, "",
               <<SynthThenTy, SynthElseTy>>)

(***************************************************************************)
(* C20 as claimed. Synthesizing the type of an if-expression succeeds only *)
(* when the inferred types of its two branches are equal, and then yields  *)
(* that type; when they differ, synthesis fails with a type mismatch.      *)
(***************************************************************************)
C20_AsClaimed ==
    /\ IfInferred /\ ElseInferred.ok =>
          IF ThenTy = ElseTy
          THEN InferResult.ok /\ InferResult.value.ty = ThenTy
          ELSE InferResult = Err("Mismatch")
    /\ IfSynthesized =>
          IF SynthThenTy = SynthElseTy
          THEN StudiedTerm.tag = "BoolElim" /\ items["T"].ty = SynthThenTy
          ELSE StudiedTerm = CoreError(TermSpan)
               /\ StudiedDiags[Len(StudiedDiags)] = BranchMismatch

(***************************************************************************)
(* C20. infer_term on an if-expression infers the type of the first branch *)
(* and checks the second branch against it; the synthesized type is the    *)
(* type of the first branch.  A second branch that is a variable, a global *)
(* or an annotated term is accepted exactly when its inferred type is a    *)
(* subtype (is_subtype) of the type of the first branch, and is otherwise  *)
(* a mismatch; an integer literal is accepted exactly when the type of the *)
(* first branch is F32, F64 or a supertype of its singleton interval; a    *)
(* float literal exactly when that type is F32 or F64.  synth_term of the  *)
(* surface elaborator synthesizes both branches and accepts them when the  *)
(* two types are equal or one of them is the error value; it yields the    *)
(* type of the first branch, and otherwise reports a type mismatch at the  *)
(* second branch and yields the error term and the error value.            *)
(***************************************************************************)
C20_IfSynthesis ==
    /\ IfInferred =>
          /\ InferResult.ok => InferResult.value.ty = ThenTy
          /\ raw_term.if_false.tag \in {"Var", "Global", "Ann"} =>
                IF ~ElseInferred.ok THEN InferResult = ElseInferred
                ELSE IF is_subtype(ElseTy, ThenTy) THEN InferResult.ok
                ELSE InferResult = Err("Mismatch")
          /\ raw_term.if_false.tag = "Literal" =>
                IF raw_term.if_false.literal.tag = "Int"
                THEN InferResult.ok <=> IsFloatTy(ThenTy) \/ is_subtype(ElseTy, ThenTy)
                ELSE InferResult.ok <=> IsFloatTy(ThenTy)
    /\ IfSynthesized =>
          IF SynthThenTy = SynthElseTy \/ ValueError \in {SynthThenTy, SynthElseTy}
          THEN /\ StudiedTerm.tag = "BoolElim"
               /\ items["T"].ty = SynthThenTy
               /\ \A k \in DOMAIN StudiedDiags :
                     ~(/\ StudiedDiags[k].kind = "type_mismatch"
                       /\ StudiedDiags[k].span = TermSpan \o <<2>>)
          ELSE /\ StudiedTerm = CoreError(TermSpan)
               /\ items["T"].ty = ValueError
               /\ StudiedDiags[Len(StudiedDiags)] = BranchMismatch

\* `if true then x else 5` with x : IntType(0, 65535): the literal 5, whose
\* inferred type is IntType(5, 5), is checked against the type of x, and
\* the synthesized type is the type of x.
C20_Witness ==
    /\ IfInferred
    /\ raw_term = RawTermIf(RawTermGlobal("true"), RawTermVar("x"),
                            RawTermLiteral(RawInt(BigFrom(5))))
    /\ ElseTy = int_ty(Some(BigFrom(5)), Some(BigFrom(5)))
    /\ InferResult.ok
    /\ InferResult.value.ty = int_ty(Some(BigFrom(0)), Some(BigFrom(65535)))

(***************************************************************************)
(* C26. is_subtype is reflexive on the sized endian integer globals: for   *)
(* each T among U16Le .. S64Le and U16Be .. S64Be, is_subtype(T, T) holds. *)
(***************************************************************************)
C26_EndianReflexive ==
    GlobalSubtypeDecided =>
        \A name \in DOMAIN EndianInts : ty1 = global(name) => subtypes[1].t11

(***************************************************************************)
(* Vocabulary of the fields of a struct (SpecFields).                      *)
(***************************************************************************)
FieldTermSpan(j) == StructSpan \o <<j, 1>>

\* The names a field term can resolve to: the items accepted before the
\* struct and, among the names of the inputs, the built-in format U32Be.
Resolvable == DOMAIN items \cup {"U32Be"}

\* The core fields that field j of the surface struct has produced.
CoreFieldsOf(j) ==
    {k \in DOMAIN core_fields : core_fields[k].start = StructSpan \o <<j>>}

(***************************************************************************)
(* C30. Every field term of a struct is elaborated in a context that holds *)
(* only the items accepted before the struct: the names that resolve are   *)
(* the same for every field and earlier fields add none, so a name that    *)
(* is not among them, the label of an earlier field included, is reported  *)
(* as unbound, once, and elaborates to the error sentinel.                 *)
(***************************************************************************)
C30_FieldsSeeItemsOnly ==
    surface_fields # <<>> =>
        \A j \in 1..fidx :
            LET name == surface_fields[j].term.name
                unbound == {k \in DOMAIN diags :
                               diags[k] = NotFound(FieldTermSpan(j), name)}
            IN  IF name \in Resolvable
                THEN /\ unbound = {}
                     /\ \A k \in CoreFieldsOf(j) : core_fields[k].term.tag # "Error"
                            \/ items[name].ty = BoolTy
                ELSE /\ Cardinality(unbound) = 1
                     /\ \A k \in CoreFieldsOf(j) :
                            core_fields[k].term = CoreError(FieldTermSpan(j))

\* `struct { x : U32Be, y : x }`: the second field names the first, which
\* is no item; it is reported as unbound and its term is the error sentinel.
C30_Witness ==
    /\ surface_fields = <<TypeField("x", Name("U32Be")), TypeField("y", Name("x"))>>
    /\ fidx = 2
    /\ diags = <<NotFound(<<2, 2, 1>>, "x")>>
    /\ core_fields[2] = CoreTypeField(<<2, 2>>, "y", CoreError(<<2, 2, 1>>))

(***************************************************************************)
(* Vocabulary of a case on a value (SpecNormalize).                        *)
(***************************************************************************)
\* The normal form of the scrutinee of the case studied.
Scrutinee == normalize(tc_env.definitions, norm_term.head, 0)

\* The term studied is a case whose scrutinee has a normal form that is not
\* neutral, and it has been normalized.
CaseOnValue ==
    /\ nf # None
    /\ norm_term.tag = "Case"
    /\ Scrutinee.ok
    /\ Scrutinee.value.tag # "Neutral"

\* A literal pattern matches the equal literal value, a binder any value.
LiteralMatches(pattern, value) ==
    /\ pattern.tag = "Literal"
    /\ value.tag = "Literal"
    /\ value.literal.tag = pattern.literal.tag
    /\ value.literal = pattern.literal

Matches(pattern, value) == pattern.tag = "Binder" \/ LiteralMatches(pattern, value)

Unannotated(clauses) ==
    \A i \in DOMAIN clauses : clauses[i][1].tag \in {"Literal", "Binder"}

MatchingClauses(clauses, value) ==
    {i \in DOMAIN clauses : Matches(clauses[i][1], value)}

\* The body of clause i with the value substituted for the name it binds.
ClauseBody(clauses, i, value) ==
    IF clauses[i][1].tag = "Binder"
    THEN open_term(clauses[i][2], 0, term_of_value(value))
    ELSE clauses[i][2]

(***************************************************************************)
(* C24. The normal form of a case whose scrutinee has a normal form that   *)
(* is not neutral is the normal form of the body of the first clause, in   *)
(* order, whose pattern matches (a literal pattern the equal literal, a    *)
(* binder pattern any value, which is substituted for the bound name);     *)
(* the clauses after it do not count, and with no clause that matches the  *)
(* result is the internal error NoPatternsApplicable.                      *)
(***************************************************************************)
C24_FirstClauseWins ==
    (CaseOnValue /\ Unannotated(norm_term.clauses)) =>
        \E matching \in {MatchingClauses(norm_term.clauses, Scrutinee.value)} :
            IF matching = {}
            THEN nf[1] = Err("NoPatternsApplicable")
            ELSE \E i \in matching :
                    /\ \A j \in matching : i <= j
                    /\ nf[1] = normalize(tc_env.definitions,
                                         ClauseBody(norm_term.clauses, i,
                                                    Scrutinee.value), 0)

\* `case true { _ => x; true => t; y => y }`: the three clauses match and
\* the normal form is that of the body of the first, the variable x.
C24_Witness ==
    /\ CaseOnValue
    /\ norm_term.head = TermGlobal("true")
    /\ Len(norm_term.clauses) = 3
    /\ MatchingClauses(norm_term.clauses, Scrutinee.value) = {1, 2, 3}
    /\ tc_env.definitions = Definitions
    /\ nf[1] = Ok(var("x"))

\* A case with clauses none of which matches, such as
\* `case U8 { 1 => t; false => id x }`.
C24_WitnessNoClause ==
    /\ CaseOnValue
    /\ norm_term.clauses # <<>>
    /\ Unannotated(norm_term.clauses)
    /\ MatchingClauses(norm_term.clauses, Scrutinee.value) = {}
    /\ nf[1] = Err("NoPatternsApplicable")

(***************************************************************************)
(* Vocabulary of stuck eliminations (SpecNormalize).                       *)
(***************************************************************************)
\* The scrutinee of an if, a projection or a case.
ScrutineeOf(t) ==
    CASE t.tag = "If" -> t.cond
      [] t.tag = "Proj" -> t.expr
      [] t.tag = "Case" -> t.head

\* The elimination t with the scrutinee s in place of its own.
WithScrutinee(t, s) ==
    CASE t.tag = "If" -> TermIf(s, t.if_true, t.if_false)
      [] t.tag = "Proj" -> TermProj(s, t.label)
      [] t.tag = "Case" -> TermCase(s, t.clauses)

\* The term studied is an if, a projection or a case on `f x`, where f is
\* a variable with no definition, and it has a normal form.
StuckOnApplication ==
    /\ nf # None
    /\ nf[1].ok
    /\ norm_term.tag \in {"If", "Proj", "Case"}
    /\ ScrutineeOf(norm_term).tag = "App"
    /\ ScrutineeOf(norm_term).head.tag = "Var"
    /\ ScrutineeOf(norm_term).head.var.tag = "Free"
    /\ ScrutineeOf(norm_term).head.var.name \notin DOMAIN tc_env.definitions

\* The elimination of f alone, applied to x.
EliminationApplied ==
    TermApp(WithScrutinee(norm_term, ScrutineeOf(norm_term).head),
            ScrutineeOf(norm_term).arg)

(***************************************************************************)
(* C27. A stuck elimination keeps the application spine of its scrutinee   *)
(* with the scrutinee: for a neutral variable f, the normal form of an if, *)
(* a projection or a case on `f x` differs from the normal form of the     *)
(* same elimination on f alone applied to x.                               *)
(***************************************************************************)
C27_SpineStaysWithScrutinee ==
    StuckOnApplication =>
        nf[1] # normalize(tc_env.definitions, EliminationApplied, 0)

(***************************************************************************)
(* Vocabulary of an application whose head is neutral (SpecNormalize).     *)
(***************************************************************************)
AppHead == normalize(tc_env.definitions, norm_term.head, 0)
AppArg == normalize(tc_env.definitions, norm_term.arg, 0)

\* The term studied is an application, the head has a neutral normal form
\* and the argument a normal form; the application has been normalized.
NeutralApplied ==
    /\ nf # None
    /\ norm_term.tag = "App"
    /\ AppHead.ok
    /\ AppHead.value.tag = "Neutral"
    /\ AppArg.ok

\* The spine of the head with the argument appended.
AppSpine == Append(AppHead.value.spine, AppArg.value)

\* No neutral term occurs in the value.
RECURSIVE Normal(_)
Normal(v) ==
    /\ v.tag # "Neutral"
    /\ v.tag = "IntType" =>
            /\ (v.min # None => Normal(v.min[1]))
            /\ (v.max # None => Normal(v.max[1]))
    /\ v.tag \in {"Pi", "Lam", "RecordType"} => Normal(v.ann) /\ Normal(v.body)
    /\ v.tag = "Record" => Normal(v.value) /\ Normal(v.body)
    /\ v.tag = "Array" => \A i \in DOMAIN v.elems : Normal(v.elems[i])

\* The head is exactly an extern that names a primitive, the spine has the
\* arity of the primitive and all of it is normal.
PrimitiveComplete ==
    /\ AppHead.value.head.tag = "Extern"
    /\ AppHead.value.head.name \in DOMAIN primitives
    /\ Len(AppSpine) = primitives[AppHead.value.head.name].arity
    /\ \A i \in DOMAIN AppSpine : Normal(AppSpine[i])

(***************************************************************************)
(* C23. When an argument is appended to a neutral, the interpretation of a *)
(* primitive is called exactly if the head of the neutral is the extern of *)
(* that primitive, the spine then has the arity of the primitive and every *)
(* argument of the spine is normal; the result is then what the            *)
(* interpretation gives on the spine.  In every other case (a spine that   *)
(* is shorter or longer, an argument that is not normal, a name that is no *)
(* primitive, an extern under an if, a projection or a case) the result is *)
(* the neutral with the argument appended.                                 *)
(***************************************************************************)
C23_PrimitiveReduction ==
    NeutralApplied =>
        IF PrimitiveComplete
        THEN nf[1] = interpretation(AppHead.value.head.name, AppSpine)
        ELSE nf[1] = Ok(Neutral(AppHead.value.head, AppSpine))

\* `bool-eq true t` under t = true: the second argument completes the
\* spine and the primitive gives true.
C23_Witness ==
    /\ NeutralApplied
    /\ PrimitiveComplete
    /\ AppHead.value = Neutral(HeadExtern("bool-eq", bool_ty),
                               <<Literal(LiteralBool(TRUE))>>)
    /\ nf[1] = Ok(Literal(LiteralBool(TRUE)))

\* `bool-not x 1`: the spine is longer than the arity and x is not normal.
C23_WitnessLonger ==
    /\ NeutralApplied
    /\ AppHead.value = Neutral(HeadExtern("bool-not", bool_ty), <<var("x")>>)
    /\ nf[1] = Ok(Neutral(HeadExtern("bool-not", bool_ty),
                          <<var("x"), Literal(LiteralInt(BigFrom(1)))>>))

\* `(if bool-not then x else x) true`: the extern is under an if.
C23_WitnessWrapped ==
    /\ NeutralApplied
    /\ AppHead.value.head.tag = "If"
    /\ AppHead.value.head.cond = HeadExtern("bool-not", bool_ty)
    /\ AppArg.value = Literal(LiteralBool(TRUE))
    /\ nf[1] = Ok(Neutral(AppHead.value.head, <<Literal(LiteralBool(TRUE))>>))

(***************************************************************************)
(* Vocabulary of check_module (SpecModule).                                *)
(***************************************************************************)
\* The binders of the first k definitions.
DefinedNames(k) == {DefNames[j] : j \in 1..k}

\* check_module has gone through definition k: it has accepted it or has
\* returned the error of checking it.
Visited(k) == def_idx >= k \/ (def_idx = k - 1 /\ module_error # None)

\* Definition k refers to its own binder and to nothing else.
SelfReferential(k) == raw_module[k].term = RawTermVar(raw_module[k].name)

(***************************************************************************)
(* C21 as claimed.  A self-referential definition D = D is accepted: it    *)
(* yields a definition whose term is the variable D, and that term has the *)
(* neutral variable D as its normal form under no definitions.             *)
(***************************************************************************)
C21_AsClaimed ==
    \A k \in DOMAIN raw_module :
        (SelfReferential(k) /\ Visited(k)) =>
            /\ def_idx >= k
            /\ module_defs[k].term = TermVar(Free(raw_module[k].name))
            /\ normalize(EmptyMap, module_defs[k].term, 0)
                   = Ok(var(raw_module[k].name))

(***************************************************************************)
(* C21, amended.  A self-referential definition D = D, annotated or not,   *)
(* is rejected: D is claimed only once its definition has been accepted,   *)
(* so check_module returns the error UndefinedFreeVar at it, and D gets no *)
(* claim and no definition.  The variable D has the neutral variable D as  *)
(* its normal form under no definitions.                                   *)
(***************************************************************************)
C21_SelfReferenceRejected ==
    \A k \in DOMAIN raw_module :
        SelfReferential(k) =>
            /\ def_idx < k
            /\ Visited(k) => module_error = Some("UndefinedFreeVar")
            /\ raw_module[k].name \notin DOMAIN tc_env.claims
            /\ raw_module[k].name \notin DOMAIN tc_env.definitions
            /\ normalize(EmptyMap, TermVar(Free(raw_module[k].name)), 0)
                   = Ok(var(raw_module[k].name))

\* `a = U8; b : Bool = b`: the second definition is reached and rejected.
C21_Witness ==
    /\ Len(raw_module) >= 2
    /\ raw_module[1] = RawDefinition("a", RawTermHole, RawTermGlobal("U8"))
    /\ raw_module[2] = RawDefinition("b", RawTermGlobal("Bool"), RawTermVar("b"))
    /\ def_idx = 1
    /\ module_error = Some("UndefinedFreeVar")

\* The environment after the first k definitions collected.
ModuleEnv(k) ==
    [definitions |-> [n \in DefinedNames(k) |->
                         module_defs[CHOOSE j \in 1..k : DefNames[j] = n].term],
     claims |-> [n \in DefinedNames(k) |->
                    module_defs[CHOOSE j \in 1..k : DefNames[j] = n].ann]]

\* What checking definition k under the environment env gives: the type
\* inferred for its term, or its term checked against the normal form of
\* its annotation.
CheckedUnder(env, k) ==
    IF raw_module[k].ann.tag = "Hole"
    THEN infer_term(env, raw_module[k].term)
    ELSE CHOOSE r \in
             {IF ~v.ok THEN v
              ELSE with_ty(semantics_check_term(env, raw_module[k].term, v.value),
                           v.value) :
                 v \in {normalize(env.definitions,
                                  infer_term(env, raw_module[k].ann).value.term, 0)}} : TRUE

\* The environment holds exactly the definitions collected so far, in the
\* order of the source.
C22_EnvOfAccepted ==
    /\ Len(module_defs) = def_idx
    /\ \A k \in 1..def_idx : module_defs[k].name = raw_module[k].name
    /\ tc_env = ModuleEnv(def_idx)

\* The step that accepts definition k+1: it has been checked under the
\* environment of the first k definitions, and if it is a reference to the
\* binder of definition k its normal form is that of the term of k.
C22_AcceptNext ==
    def_idx' = def_idx + 1 =>
        /\ SubSeq(module_defs', 1, def_idx) = module_defs
        /\ CheckedUnder(ModuleEnv(def_idx), def_idx').ok
        /\ [term |-> module_defs'[def_idx'].term, ty |-> module_defs'[def_idx'].ann]
               = CheckedUnder(ModuleEnv(def_idx), def_idx').value
        /\ (def_idx >= 1 /\ raw_module[def_idx'].term = RawTermVar(DefNames[def_idx])) =>
               normalize(tc_env'.definitions, module_defs'[def_idx'].term, 0)
                   = normalize(tc_env.definitions, module_defs[def_idx].term, 0)

(***************************************************************************)
(* C22. check_module goes through the definitions in the order of the      *)
(* source and threads the environment: after definition k is accepted the  *)
(* claims map its name to its normalized type and the definitions map it   *)
(* to its elaborated term; definition k+1 is checked in the environment    *)
(* that holds exactly the claims and definitions of definitions 1..k, and  *)
(* a reference in it to the name of definition k has the normal form of    *)
(* the term of definition k.                                               *)
(***************************************************************************)
C22_EnvironmentThreaded == []C22_EnvOfAccepted /\ [][C22_AcceptNext]_vars

\* `a = U8; b : a = 5; c = b`: b is checked against the normal form of a
\* and c has the normal form of b.
C22_Witness ==
    /\ def_idx = 3
    /\ raw_module[1] = RawDefinition("a", RawTermHole, RawTermGlobal("U8"))
    /\ raw_module[2] = RawDefinition("b", RawTermVar("a"),
                                     RawTermLiteral(RawInt(BigFrom(5))))
    /\ raw_module[3] = RawDefinition("c", RawTermHole, RawTermVar("b"))
    /\ tc_env.claims["b"] = normalize_global("U8")
    /\ tc_env.claims["c"] = normalize_global("U8")
    /\ tc_env.definitions["c"] = TermVar(Free("b"))
    /\ normalize(tc_env.definitions, TermVar(Free("c")), 0)
           = Ok(Literal(LiteralInt(BigFrom(5))))

\* The free variables of a core term.
RECURSIVE FreeNames(_)
FreeNames(t) ==
    CASE t.tag = "Var" -> IF t.var.tag = "Free" THEN {t.var.name} ELSE {}
      [] t.tag = "Ann" -> FreeNames(t.expr) \cup FreeNames(t.ty)
      [] t.tag = "Extern" -> FreeNames(t.ty)
      [] t.tag \in {"Pi", "Lam"} -> FreeNames(t.ann) \cup FreeNames(t.body)
      [] t.tag = "App" -> FreeNames(t.head) \cup FreeNames(t.arg)
      [] t.tag = "If" ->
            FreeNames(t.cond) \cup FreeNames(t.if_true) \cup FreeNames(t.if_false)
      [] t.tag = "Case" ->
            FreeNames(t.head)
            \cup UNION {FreeNames(t.clauses[i][2]) : i \in DOMAIN t.clauses}
      [] OTHER -> {}

\* The unfolding of the definitions in t ends within n nested steps.
RECURSIVE UnfoldsWithin(_, _)
UnfoldsWithin(t, n) ==
    \A x \in FreeNames(t) \cap DOMAIN tc_env.definitions :
        n > 0 /\ UnfoldsWithin(tc_env.definitions[x], n - 1)

(***************************************************************************)
(* C29. The definitions map of an accepted module has no cycle: the term   *)
(* of definition k mentions, among the free variables that are defined,    *)
(* only the names of definitions 1..k-1, so the unfolding of a definition  *)
(* by normalize ends after at most as many nested steps as there are       *)
(* definitions.                                                            *)
(***************************************************************************)
C29_DefinitionsAcyclic ==
    \A k \in 1..def_idx :
        /\ FreeNames(module_defs[k].term) \cap DOMAIN tc_env.definitions
               \subseteq DefinedNames(k - 1)
        /\ UnfoldsWithin(TermVar(Free(DefNames[k])), k)

\* `a = U8; b = a; c = b`: c unfolds to b, b to a, a to U8.
C29_Witness ==
    /\ def_idx = 3
    /\ tc_env.definitions["a"] = TermGlobal("U8")
    /\ tc_env.definitions["b"] = TermVar(Free("a"))
    /\ tc_env.definitions["c"] = TermVar(Free("b"))
    /\ ~UnfoldsWithin(TermVar(Free("c")), 2)

(***************************************************************************)
(* Vocabulary of the scopes of binders (SpecScopes).                       *)
(***************************************************************************)
\* The names a raw pattern binds, and the annotations in it.
RECURSIVE PatternBinders(_), PatternAnns(_)
PatternBinders(p) ==
    CASE p.tag = "Binder" -> {p.name}
      [] p.tag = "Ann" -> PatternBinders(p.pattern)
      [] OTHER -> {}
PatternAnns(p) ==
    IF p.tag = "Ann" THEN {p.ty} \cup PatternAnns(p.pattern) ELSE {}

\* Every variable of the raw term is in scope: it is one of the names of
\* `scope` or it is under a binder of its name, in the body of that binder.
RECURSIVE WellScoped(_, _)
WellScoped(raw, scope) ==
    CASE raw.tag = "Var" -> raw.name \in scope
      [] raw.tag = "Ann" -> WellScoped(raw.expr, scope) /\ WellScoped(raw.ty, scope)
      [] raw.tag = "If" ->
            /\ WellScoped(raw.cond, scope)
            /\ WellScoped(raw.if_true, scope)
            /\ WellScoped(raw.if_false, scope)
      [] raw.tag \in {"Pi", "Lam", "RecordType"} ->
            /\ WellScoped(raw.ann, scope)
            /\ WellScoped(raw.body, scope \cup {raw.name})
      [] raw.tag = "Case" ->
            /\ WellScoped(raw.head, scope)
            /\ \A i \in DOMAIN raw.clauses :
                  /\ \A t \in PatternAnns(raw.clauses[i][1]) : WellScoped(t, scope)
                  /\ WellScoped(raw.clauses[i][2],
                                scope \cup PatternBinders(raw.clauses[i][1]))
      [] OTHER -> TRUE

Inferred == raw_term # None /\ infer_result # None

\* A lambda or a case clause whose body is its own binder, on a type or a
\* head that elaborates: the binder is visible in the body.
BinderVisible ==
    /\ (/\ raw_term.tag = "Lam"
        /\ raw_term.ann.tag = "Global"
        /\ raw_term.body = RawTermVar(raw_term.name)) =>
            /\ infer_result[1].ok
            /\ infer_result[1].value.ty
                   = Pi(normalize_global(raw_term.ann.name),
                        normalize_global(raw_term.ann.name))
    /\ (/\ raw_term.tag = "Case"
        /\ raw_term.head.name \in {"x", "true"}
        /\ Len(raw_term.clauses) = 1
        /\ raw_term.clauses[1][1].tag = "Binder"
        /\ raw_term.clauses[1][2] = RawTermVar(raw_term.clauses[1][1].name)) =>
            /\ infer_result[1].ok
            /\ infer_result[1].value.ty
                   = infer_term(tc_env, raw_term.head).value.ty

\* The claim of a binder is seen in the body of the binder and nowhere
\* else: a term is elaborated only if each of its variables is claimed by
\* the environment given or is in the body of a binder of its name.
C25_ClaimsScoped ==
    Inferred =>
        /\ infer_result[1].ok => WellScoped(raw_term, DOMAIN tc_env.claims)
        /\ (raw_term.tag = "Var" /\ raw_term.name \notin DOMAIN tc_env.claims) =>
               infer_result[1] = Err("UndefinedFreeVar")
        /\ BinderVisible

C25_WitnessSibling ==
    /\ raw_term = RawTermIf(RawTermVar("b"),
                            RawTermCase(RawTermVar("x"),
                                        <<<<RawPatternBinder("y"), RawTermVar("y")>>>>),
                            RawTermVar("y"))
    /\ infer_result = Some(Err("UndefinedFreeVar"))

\* The raw pattern is a binder, annotated or not.
RECURSIVE IsBinderPattern(_)
IsBinderPattern(p) ==
    p.tag = "Binder" \/ (p.tag = "Ann" /\ IsBinderPattern(p.pattern))

\* The term studied is a case that type checks, one of its clauses is a
\* binder pattern, and the elaborated case has been normalized.
CheckedCaseNormalized ==
    /\ Inferred
    /\ infer_result[1].ok
    /\ raw_term.tag = "Case"
    /\ \E i \in DOMAIN raw_term.clauses : IsBinderPattern(raw_term.clauses[i][1])
    /\ nf # None

(***************************************************************************)
(* C28. The evaluation of a case that type checks does not fail for lack   *)
(* of a clause that matches when one of its clauses is a binder pattern,   *)
(* annotated with a type or not.                                           *)
(***************************************************************************)
C28_BinderAlwaysMatches ==
    CheckedCaseNormalized => nf[1] # Err("NoPatternsApplicable")

====
